---- MODULE Spec2Model ----
(***************************************************************************)
(* Model of the position risk-management state machine of                  *)
(* src/ScalpingTunedBot.py: the state store (trade_state.json), the        *)
(* position closer, the recovery / ghost-position logic of the main loop   *)
(* and the trailing-stop monitor.                                          *)
(*                                                                         *)
(* Units.  Prices are integers in cents (the monitor rounds every price    *)
(* to 2 decimals).  Percentages are integers in thousandths of a percent   *)
(* (7.0 % = 7000), multipliers in hundredths (1.75 = 175).  The script     *)
(* computes in Python floats.  A float result is within 1 part in 10^13 of *)
(* the exact rational one, and the rationals compared here have            *)
(* denominators of at most PCT * 10^4, so a comparison or a rounding of    *)
(* floats differs from the exact one only where the exact values tie.      *)
(* Comparisons and roundings are therefore made on the exact values, and   *)
(* at an exact tie on the floats themselves, operation by operation.       *)
(***************************************************************************)
EXTENDS Integers, Sequences, FiniteSets, TLC

(***************************************************************************)
(* Bounds of the model.                                                    *)
(***************************************************************************)
LowEntry == 7
MaxEntry == 20
PriceDip == 2
PriceRise == 10
MaxQty == 1

(***************************************************************************)
(* strategy_config (src/ScalpingTunedBot.py:66-98).                        *)
(***************************************************************************)
LOW_VIX_TRAILING_STOP == 7000
HIGH_VIX_TRAILING_STOP == 10500
SCALP_PROFIT_TARGET_MULT == 175
SCALP_RUNNER_TARGET_MULT == 300
TREND_TIGHTENED_STOP == 4000
REVERSION_TIGHTENED_STOP == 4000
BREAKEVEN_COST_BUFFER_PERCENT == 500

\* 100 % in thousandths of a percent.
PCT == 100000

Regimes == {"TREND", "REVERSION"}

\* Prices the feed can deliver for a position entered at entry_price, once
\* rounded to cents and found > 0: a band around the entry price.
Prices(entry_price) ==
    {p \in (entry_price - PriceDip)..(entry_price + PriceRise) : p > 0}

\* avgFillPrice reported for a filled opening order (0: not reported).
FillPrices == {0, LowEntry, MaxEntry}

\* The arguments of a call of the monitor with round values: entered at
\* 2.00, trailing stop 10 %, targets 20 % and 40 %, tightened stop 5 %.
Scenario ==
    [entry |-> 200, tp |-> 10000,
     targets |-> [target_1 |-> 20000, target_2 |-> 40000,
                  tightened_stop |-> 5000]]

\* The arguments of a call of the monitor with the high-VIX values of
\* THISONE_REFACTORED_FINAL_BOT.py: entered at 2.00, trailing stop 20 %,
\* targets 15 % and 30 %, tightened stop 5 %.
Twin ==
    [entry |-> 200, tp |-> 20000,
     targets |-> [target_1 |-> 15000, target_2 |-> 30000,
                  tightened_stop |-> 5000]]

\* Prices the feed can deliver in that call: the multiples of 0.10 between
\* 1.70 and 3.00, and 2.28.
ScenarioPrices == {p \in 170..300 : p % 10 = 0} \cup {228}

\* Prices the monitor can see for a position entered at entry_price.
FeedPrices(entry_price) ==
    IF entry_price = Scenario.entry THEN ScenarioPrices ELSE Prices(entry_price)

Quantities == 1..MaxQty

\* conId of the option contracts the broker knows.
ConIds == {1, 2}

Max(a, b) == IF a >= b THEN a ELSE b

Abs(n) == IF n >= 0 THEN n ELSE 0 - n

\* round(n / d) to the nearest integer, ties to even (n >= 0, d > 0).
RoundHalfEven(n, d) ==
    LET q == n \div d
        r == n % d
    IN  IF 2 * r < d THEN q
        ELSE IF 2 * r > d THEN q + 1
        ELSE IF q % 2 = 0 THEN q ELSE q + 1

(***************************************************************************)
(* Python floats.  The script computes gains and stops in IEEE-754 binary64 *)
(* (Python float): every operation returns the representable value nearest  *)
(* to the exact result, ties to the even significand.  A float is modelled  *)
(* exactly, as m * 2^ex with m a natural number of MantissaBits bits, and   *)
(* natural numbers of that size as sequences of digits in base Base, lowest *)
(* first (TLC's integers are 32 bits wide).                                 *)
(***************************************************************************)
MantissaBits == 53
DigitBits == 15
Base == 2 ^ DigitBits

BigNat == Seq(Nat)

Floats == [m : BigNat, ex : Int]

Digit(a, i) == IF i <= Len(a) THEN a[i] ELSE 0

Norm[a \in BigNat] ==
    IF a = <<>> THEN <<>>
    ELSE IF a[Len(a)] = 0 THEN Norm[SubSeq(a, 1, Len(a) - 1)]
    ELSE a

BigOf[n \in Nat] == IF n = 0 THEN <<>> ELSE <<n % Base>> \o BigOf[n \div Base]

IntOf[a \in BigNat] == IF a = <<>> THEN 0 ELSE a[1] + Base * IntOf[Tail(a)]

IntBits[n \in Nat] == IF n = 0 THEN 0 ELSE 1 + IntBits[n \div 2]

\* The number of bits of a.
BitLen[a \in BigNat] ==
    IF a = <<>> THEN 0 ELSE DigitBits * (Len(a) - 1) + IntBits[a[Len(a)]]

BigGE[a \in BigNat, b \in BigNat] ==
    LET n == Max(Len(a), Len(b))
        diff == {i \in 1..n : Digit(a, i) # Digit(b, i)}
        top == CHOOSE i \in diff : \A j \in diff : j <= i
    IN  diff = {} \/ Digit(a, top) > Digit(b, top)

AddFrom[a \in BigNat, b \in BigNat, i \in Nat, carry \in Nat] ==
    IF i > Max(Len(a), Len(b))
    THEN IF carry = 0 THEN <<>> ELSE <<carry>>
    ELSE LET s == Digit(a, i) + Digit(b, i) + carry
         IN  <<s % Base>> \o AddFrom[a, b, i + 1, s \div Base]

BigAdd[a \in BigNat, b \in BigNat] == AddFrom[a, b, 1, 0]

SubFrom[a \in BigNat, b \in BigNat, i \in Nat, borrow \in Nat] ==
    IF i > Len(a) THEN <<>>
    ELSE LET s == Digit(a, i) - Digit(b, i) - borrow
         IN  <<s % Base>> \o SubFrom[a, b, i + 1, IF s < 0 THEN 1 ELSE 0]

\* a - b, for a >= b.
BigSub[a \in BigNat, b \in BigNat] == Norm[SubFrom[a, b, 1, 0]]

MulFrom[a \in BigNat, n \in Nat, i \in Nat, carry \in Nat] ==
    IF i > Len(a) THEN BigOf[carry]
    ELSE LET s == a[i] * n + carry
         IN  <<s % Base>> \o MulFrom[a, n, i + 1, s \div Base]

\* a * n, for 0 <= n <= Base.
MulSmall[a \in BigNat, n \in Nat] == Norm[MulFrom[a, n, 1, 0]]

BigMul[a \in BigNat, b \in BigNat] ==
    IF b = <<>> \/ a = <<>> THEN <<>>
    ELSE BigAdd[MulSmall[a, b[1]], <<0>> \o BigMul[a, Tail(b)]]

\* a * 2^k.
Shl[a \in BigNat, k \in Nat] ==
    IF a = <<>> THEN <<>>
    ELSE MulSmall[[i \in 1..(k \div DigitBits) |-> 0] \o a, 2 ^ (k % DigitBits)]

\* The quotient digit of r / b, for r < b * Base and b with its highest digit
\* at least Base / 2: at most 2 below the estimate t made from the highest
\* digits (Knuth, TAOCP 4.3.1, Theorem B).
QuotientDigit[r \in BigNat, b \in BigNat, t \in Nat] ==
    IF BigGE[r, MulSmall[b, t]] THEN t ELSE QuotientDigit[r, b, t - 1]

DigitEstimate[r \in BigNat, b \in BigNat] ==
    LET n == Len(b)
        est == (Digit(r, n + 1) * Base + Digit(r, n)) \div b[n]
    IN  IF est >= Base THEN Base - 1 ELSE est

\* Long division, highest digit of a first: q and r are the quotient and the
\* remainder of the digits above i.
DivFrom[a \in BigNat, b \in BigNat, i \in Nat, q \in BigNat, r \in BigNat] ==
    IF i = 0 THEN [q |-> Norm[q], r |-> r]
    ELSE LET r1 == Norm[<<a[i]>> \o r]
             t == QuotientDigit[r1, b, DigitEstimate[r1, b]]
         IN  DivFrom[a, b, i - 1, <<t>> \o q, BigSub[r1, MulSmall[b, t]]]

\* The shift that brings the highest digit of b > 0 to Base / 2 or more.
NormShift[b \in BigNat] == DigitBits - IntBits[b[Len(b)]]

\* The quotient of a / b and its remainder * 2^NormShift[b], for b > 0.
BigDivMod[a \in BigNat, b \in BigNat] ==
    LET a1 == Shl[a, NormShift[b]]
    IN  DivFrom[a1, Shl[b, NormShift[b]], Len(a1), <<>>, <<>>]

\* A quotient with its remainder, as BigDivMod gives them.
QuotRem == [q : BigNat, r : BigNat]

\* The quotient dm.q of a division rounded to the nearest integer, ties to
\* even, from its remainder dm.r and its divisor d (both scaled alike).
RoundQuotient[dm \in QuotRem, d \in BigNat] ==
    IF IF Shl[dm.r, 1] = d THEN Digit(dm.q, 1) % 2 = 1 ELSE BigGE[Shl[dm.r, 1], d]
    THEN BigAdd[dm.q, <<1>>]
    ELSE dm.q

\* The integer nearest to n / d, ties to even.
BigRoundDiv[n \in BigNat, d \in BigNat] ==
    RoundQuotient[BigDivMod[n, d], Shl[d, NormShift[d]]]

\* n * 2^k and d, or n and d * 2^(-k): the fraction n / d * 2^k.
Scaled[n \in BigNat, d \in BigNat, k \in Int] ==
    IF k >= 0 THEN [n |-> Shl[n, k], d |-> d] ELSE [n |-> n, d |-> Shl[d, 0 - k]]

FloatZero == [m |-> <<>>, ex |-> 0]

\* The float m * 2^ex for m of MantissaBits bits, or 2^MantissaBits (a
\* significand that rounding carried into the next binade).
FloatOf[m \in BigNat, ex \in Int] ==
    IF BitLen[m] > MantissaBits
    THEN [m |-> Shl[<<1>>, MantissaBits - 1], ex |-> ex + 1]
    ELSE [m |-> m, ex |-> ex]

\* The float nearest to n / d * 2^ex, where n / d * 2^k has MantissaBits
\* bits before the point.
FloatRoundAt[n \in BigNat, d \in BigNat, ex \in Int, k \in Int] ==
    FloatOf[BigRoundDiv[Scaled[n, d, k].n, Scaled[n, d, k].d], ex - k]

\* The k for which n / d * 2^k has MantissaBits bits before the point, given
\* that it has MantissaBits or one more for k0.
BinadeShift[n \in BigNat, d \in BigNat, k0 \in Int] ==
    IF BigGE[Scaled[n, d, k0].n, Shl[Scaled[n, d, k0].d, MantissaBits]]
    THEN k0 - 1
    ELSE k0

\* The float nearest to n / d * 2^ex (n and d natural numbers, d > 0).
FloatRound[n \in BigNat, d \in BigNat, ex \in Int] ==
    IF n = <<>> THEN FloatZero
    ELSE FloatRoundAt[n, d, ex,
                      BinadeShift[n, d, MantissaBits - (BitLen[n] - BitLen[d])]]

\* float(n / d) for small integers n >= 0, d > 0: a decimal literal, or a
\* price that round(., 2) returned.
Float[n \in Nat, d \in Nat] == FloatRound[BigOf[n], BigOf[d], 0]

\* x.m and y.m brought to the lower of the two exponents.
Aligned[x \in Floats, y \in Floats] ==
    LET ex == IF x.ex <= y.ex THEN x.ex ELSE y.ex
    IN  [x |-> Shl[x.m, x.ex - ex], y |-> Shl[y.m, y.ex - ex], ex |-> ex]

FloatGE[x \in Floats, y \in Floats] ==
    LET a == Aligned[x, y] IN BigGE[a.x, a.y]

FloatAdd[x \in Floats, y \in Floats] ==
    LET a == Aligned[x, y] IN FloatRound[BigAdd[a.x, a.y], <<1>>, a.ex]

\* x - y, for x >= y.
FloatSub[x \in Floats, y \in Floats] ==
    LET a == Aligned[x, y] IN FloatRound[BigSub[a.x, a.y], <<1>>, a.ex]

FloatMul[x \in Floats, y \in Floats] ==
    FloatRound[BigMul[x.m, y.m], <<1>>, x.ex + y.ex]

\* x / y, for y > 0.
FloatDiv[x \in Floats, y \in Floats] == FloatRound[x.m, y.m, x.ex - y.ex]

FloatMax[x \in Floats, y \in Floats] == IF FloatGE[x, y] THEN x ELSE y

\* round(x, 2) of the float x >= 0, in cents: the multiple of 0.01 nearest
\* to the exact value of x, ties to even.
RoundToCents[x \in Floats] ==
    LET s == Scaled[MulSmall[x.m, 100], <<1>>, x.ex]
    IN  IntOf[BigRoundDiv[s.n, s.d]]

(***************************************************************************)
(* The state store.                                                        *)
(***************************************************************************)
NoContent ==
    [con |-> 0, entry |-> 0, qty |-> 0, highest |-> 0, tp |-> 0, regime |-> "TREND",
     be |-> FALSE, pl |-> FALSE]

\* No state file on disk.
AbsentFile == [kind |-> "absent"] @@ NoContent

\* The file clear_trade_state writes.
FlatFile == [kind |-> "flat"] @@ NoContent

\* A file json.load cannot parse: empty, or cut short by a write that did
\* not finish (open(STATE_FILE, 'w') truncates, json.dump writes in pieces).
TornFile == [kind |-> "unparseable"] @@ NoContent

\* Contents of the state file that no run of the script writes:
\* "unparseable": not JSON; "not_object": JSON that is not an object;
\* "no_contract": an object with is_position_open true and no usable
\* "contract"; "no_field": an object with is_position_open true and a
\* contract, without entry_price, quantity or trailing_percent.
BadFiles ==
    {[kind |-> k] @@ NoContent :
        k \in {"unparseable", "not_object", "no_contract", "no_field"}}

\* A state file with an open record whose entry_price is null.
NullEntryFile ==
    [kind |-> "null_entry", con |-> 1, entry |-> 0, qty |-> 1,
     highest |-> LowEntry, tp |-> LOW_VIX_TRAILING_STOP, regime |-> "TREND",
     be |-> FALSE, pl |-> FALSE]

\* load_trade_state left by an exception it does not catch.
LoadRaises == [kind |-> "raises"] @@ NoContent

\* save_trade_state with its two flag arguments passed in the wrong order.
save_trade_state_flags_swapped(contract, entry_price, quantity, highest_price, trailing_percent, active_regime, breakeven_activated, profit_lock_activated) ==
    [kind |-> "open", con |-> contract, entry |-> entry_price, qty |-> quantity,
     highest |-> highest_price, tp |-> trailing_percent,
     regime |-> active_regime, be |-> profit_lock_activated,
     pl |-> breakeven_activated]

\* save_trade_state writing entry_price under "highest_price".
save_trade_state_highest_lost(contract, entry_price, quantity, highest_price, trailing_percent, active_regime, breakeven_activated, profit_lock_activated) ==
    [kind |-> "open", con |-> contract, entry |-> entry_price, qty |-> quantity,
     highest |-> entry_price, tp |-> trailing_percent,
     regime |-> active_regime, be |-> breakeven_activated,
     pl |-> profit_lock_activated]

save_trade_state(contract, entry_price, quantity, highest_price, trailing_percent, active_regime, breakeven_activated, profit_lock_activated) ==
    [kind |-> "open", con |-> contract, entry |-> entry_price, qty |-> quantity,
     highest |-> highest_price, tp |-> trailing_percent,
     regime |-> active_regime, be |-> breakeven_activated,
     pl |-> profit_lock_activated]

\* load_trade_state reading the two flags under keys the file does not
\* have, so that both take their default.
load_trade_state_flags_lost(f) ==
    IF f.kind = "open" THEN [f EXCEPT !.be = FALSE, !.pl = FALSE] ELSE FlatFile

\* load_trade_state taking what it can read of a file cut short for an
\* open record, the fields it cannot read at their zero values.
load_trade_state_reads_torn(f) ==
    IF f.kind = "absent" THEN FlatFile
    ELSE IF f.kind = "unparseable" THEN [kind |-> "open"] @@ NoContent
    ELSE IF f.kind \in {"not_object", "no_contract"} THEN LoadRaises
    ELSE IF f.kind = "flat" THEN FlatFile
    ELSE f

\* What load_trade_state returns for a file.  No file, or a file json.load
\* rejects: the flat sentinel.  Not an object: state.get raises
\* AttributeError; no usable contract: state['contract'] raises KeyError
\* (Contract(**...) TypeError); neither is caught.  Otherwise the object
\* read, with the contract rebuilt from its saved attributes.
load_trade_state(f) ==
    IF f.kind \in {"absent", "unparseable"} THEN FlatFile
    ELSE IF f.kind \in {"not_object", "no_contract"} THEN LoadRaises
    ELSE IF f.kind = "flat" THEN FlatFile
    ELSE f

\* clear_trade_state rewriting the file only when it holds an open record.
clear_trade_state_if_open(f) == IF f.kind = "open" THEN FlatFile ELSE f

\* The file after clear_trade_state, f being the file before: the file is
\* opened with 'w' (created or truncated) and {"is_position_open": false}
\* written.
clear_trade_state(f) == FlatFile

(***************************************************************************)
(* The arithmetic of monitor_position_with_trailing.                       *)
(***************************************************************************)
\* The tightened stop read from the wrong configuration key (the initial
\* high-VIX stop).
ProfitTargets_wrong_key(trailing_percent, regime) ==
    [target_1 |-> (trailing_percent * SCALP_PROFIT_TARGET_MULT) \div 100,
     target_2 |-> (trailing_percent * SCALP_RUNNER_TARGET_MULT) \div 100,
     tightened_stop |-> HIGH_VIX_TRAILING_STOP]

\* active_profit_targets as built at entry and rebuilt on recovery:
\* target = trailing_percent * multiplier.
ProfitTargets(trailing_percent, regime) ==
    [target_1 |-> (trailing_percent * SCALP_PROFIT_TARGET_MULT) \div 100,
     target_2 |-> (trailing_percent * SCALP_RUNNER_TARGET_MULT) \div 100,
     tightened_stop |-> IF regime = "REVERSION"
                        THEN REVERSION_TIGHTENED_STOP
                        ELSE TREND_TIGHTENED_STOP]

\* The entry prices a monitor can be entered with and get past its
\* validation.
Entries == (FillPrices \ {0}) \cup {Scenario.entry}

\* The values current_trailing_percent can take.
TrailingPercents ==
    {LOW_VIX_TRAILING_STOP, HIGH_VIX_TRAILING_STOP, TREND_TIGHTENED_STOP,
     REVERSION_TIGHTENED_STOP, Scenario.tp, Scenario.targets.tightened_stop,
     Twin.tp, Twin.targets.tightened_stop}

\* The values the gain targets can take.
GainTargets ==
    {Scenario.targets.target_1, Scenario.targets.target_2,
     Twin.targets.target_1, Twin.targets.target_2} \cup
    UNION {{ProfitTargets(tp, r).target_1, ProfitTargets(tp, r).target_2} :
              tp \in TrailingPercents, r \in Regimes}

\* current_gain_percent >= target as the floats decide it, for
\* current_price > entry_price > 0:
\* ((current_price - entry_price) / entry_price) * 100 >= target.
FloatGainReaches(current_price, entry_price, target) ==
    LET entry == Float[entry_price, 100]
        gain == FloatMul[FloatDiv[FloatSub[Float[current_price, 100], entry],
                                  entry],
                         Float[100, 1]]
    IN  FloatGE[gain, Float[target, 1000]]

\* The gain is exactly the target.
GainTie(current_price, entry_price, target) ==
    /\ current_price > entry_price
    /\ (current_price - entry_price) * PCT = target * entry_price

\* The comparisons of a gain with a target that the floats decide: those of
\* an exact tie, among the prices, entry prices and targets of the model.
\* Evaluated once.
FloatGainAtTie ==
    [x \in {y \in [current_price : UNION {FeedPrices(e) : e \in Entries},
                   entry_price : Entries, target : GainTargets] :
                /\ y.current_price \in FeedPrices(y.entry_price)
                /\ GainTie(y.current_price, y.entry_price, y.target)}
     |-> FloatGainReaches(x.current_price, x.entry_price, x.target)]

\* current_gain_percent >= target, for entry_price > 0.
GainReaches(current_price, entry_price, target) ==
    IF GainTie(current_price, entry_price, target)
    THEN FloatGainAtTie[[current_price |-> current_price,
                         entry_price |-> entry_price, target |-> target]]
    ELSE (current_price - entry_price) * PCT >= target * entry_price

\* The trailing stop placed above the high instead of below it.
trailing_stop_price_above(highest_price, current_trailing_percent) ==
    highest_price * (PCT + current_trailing_percent)

\* highest_price * (1 - current_trailing_percent / 100), as a numerator
\* over PCT.
trailing_stop_price(highest_price, current_trailing_percent) ==
    highest_price * (PCT - current_trailing_percent)

\* entry_price * (1 + BREAKEVEN_COST_BUFFER_PERCENT / 100), as a numerator
\* over PCT.
breakeven_plus_price(entry_price) ==
    entry_price * (PCT + BREAKEVEN_COST_BUFFER_PERCENT)

\* A stop that neither trails the high nor has a breakeven floor: a fixed
\* percentage below the entry price.
final_stop_price_fixed(entry_price, highest_price, current_trailing_percent, breakeven_activated) ==
    RoundHalfEven(trailing_stop_price(entry_price, current_trailing_percent),
                  PCT)

\* The stop with the breakeven price in place of the trailing stop once
\* breakeven is activated, instead of the larger of the two.
final_stop_price_floor_replaces(entry_price, highest_price, current_trailing_percent, breakeven_activated) ==
    RoundHalfEven(IF breakeven_activated
                  THEN breakeven_plus_price(entry_price)
                  ELSE trailing_stop_price(highest_price,
                                           current_trailing_percent), PCT)

\* round(final_stop_price, 2) as the floats give it, in cents.
FloatStopPrice(entry_price, highest_price, current_trailing_percent, breakeven_activated) ==
    LET trailing ==
            FloatMul[Float[highest_price, 100],
                     FloatSub[Float[1, 1],
                              FloatDiv[Float[current_trailing_percent, 1000],
                                       Float[100, 1]]]]
        cost_buffer ==
            FloatAdd[Float[1, 1],
                     FloatDiv[Float[BREAKEVEN_COST_BUFFER_PERCENT, 1000],
                              Float[100, 1]]]
        floor == FloatMul[Float[entry_price, 100], cost_buffer]
    IN  RoundToCents[IF breakeven_activated THEN FloatMax[trailing, floor]
                     ELSE trailing]

\* final_stop_price before rounding, as a numerator over PCT.
ExactStopPrice(entry_price, highest_price, current_trailing_percent, breakeven_activated) ==
    IF breakeven_activated
    THEN Max(trailing_stop_price(highest_price, current_trailing_percent),
             breakeven_plus_price(entry_price))
    ELSE trailing_stop_price(highest_price, current_trailing_percent)

\* The exact stop is half-way between two cents.
StopTie(entry_price, highest_price, current_trailing_percent, breakeven_activated) ==
    2 * (ExactStopPrice(entry_price, highest_price, current_trailing_percent,
                        breakeven_activated) % PCT) = PCT

\* The roundings of a stop that the floats decide: those of an exact tie,
\* among the entry prices, highs and trailing percentages of the model.
\* Evaluated once.
FloatStopAtTie ==
    [x \in {y \in [entry_price : Entries,
                   highest_price : UNION {FeedPrices(e) : e \in Entries},
                   tp : TrailingPercents, be : BOOLEAN] :
                /\ y.highest_price \in FeedPrices(y.entry_price)
                /\ StopTie(y.entry_price, y.highest_price, y.tp, y.be)}
     |-> FloatStopPrice(x.entry_price, x.highest_price, x.tp, x.be)]

\* final_stop_price after round(final_stop_price, 2), in cents.
final_stop_price(entry_price, highest_price, current_trailing_percent, breakeven_activated) ==
    IF StopTie(entry_price, highest_price, current_trailing_percent,
               breakeven_activated)
    THEN FloatStopAtTie[[entry_price |-> entry_price,
                         highest_price |-> highest_price,
                         tp |-> current_trailing_percent,
                         be |-> breakeven_activated]]
    ELSE RoundHalfEven(ExactStopPrice(entry_price, highest_price,
                                      current_trailing_percent,
                                      breakeven_activated), PCT)

\* The update without its "if current_price > highest_price" guard: the
\* high follows the price down as well as up.
MonitorUpdate_no_guard(m, current_price) ==
    LET hit1 == ~m.be /\ GainReaches(current_price, m.entry, m.targets.target_1)
        hit2 == ~m.pl /\ GainReaches(current_price, m.entry, m.targets.target_2)
    IN  [mem |-> [m EXCEPT !.highest = current_price,
                           !.be = @ \/ hit1 \/ hit2,
                           !.pl = @ \/ hit2,
                           !.tp = IF hit2 THEN m.targets.tightened_stop ELSE @],
         state_changed |-> current_price # m.highest \/ hit1 \/ hit2]

\* The update with the high set to the price only when the price is lower.
MonitorUpdate_low(m, current_price) ==
    LET newLow == current_price < m.highest
        hit1 == ~m.be /\ GainReaches(current_price, m.entry, m.targets.target_1)
        hit2 == ~m.pl /\ GainReaches(current_price, m.entry, m.targets.target_2)
    IN  [mem |-> [m EXCEPT !.highest = IF newLow THEN current_price ELSE @,
                           !.be = @ \/ hit1 \/ hit2,
                           !.pl = @ \/ hit2,
                           !.tp = IF hit2 THEN m.targets.tightened_stop ELSE @],
         state_changed |-> newLow \/ hit1 \/ hit2]

\* The update that does not set state_changed on a new high.
MonitorUpdate_high_unsaved(m, current_price) ==
    LET newHigh == current_price > m.highest
        hit1 == ~m.be /\ GainReaches(current_price, m.entry, m.targets.target_1)
        hit2 == ~m.pl /\ GainReaches(current_price, m.entry, m.targets.target_2)
    IN  [mem |-> [m EXCEPT !.highest = IF newHigh THEN current_price ELSE @,
                           !.be = @ \/ hit1 \/ hit2,
                           !.pl = @ \/ hit2,
                           !.tp = IF hit2 THEN m.targets.tightened_stop ELSE @],
         state_changed |-> hit1 \/ hit2]

\* The update tightening the trailing percentage at target 1 already.
MonitorUpdate_tightens_at_target_1(m, current_price) ==
    LET newHigh == current_price > m.highest
        hit1 == ~m.be /\ GainReaches(current_price, m.entry, m.targets.target_1)
        hit2 == ~m.pl /\ GainReaches(current_price, m.entry, m.targets.target_2)
    IN  [mem |-> [m EXCEPT !.highest = IF newHigh THEN current_price ELSE @,
                           !.be = @ \/ hit1 \/ hit2,
                           !.pl = @ \/ hit2,
                           !.tp = IF hit1 \/ hit2
                                  THEN m.targets.tightened_stop ELSE @],
         state_changed |-> newHigh \/ hit1 \/ hit2]

\* The locals of the monitor after the updates of one valid tick
\* (new high, target 1, target 2), and whether state_changed was set.
MonitorUpdate(m, current_price) ==
    LET newHigh == current_price > m.highest
        hit1 == ~m.be /\ GainReaches(current_price, m.entry, m.targets.target_1)
        hit2 == ~m.pl /\ GainReaches(current_price, m.entry, m.targets.target_2)
    IN  [mem |-> [m EXCEPT !.highest = IF newHigh THEN current_price ELSE @,
                           !.be = @ \/ hit1 \/ hit2,
                           !.pl = @ \/ hit2,
                           !.tp = IF hit2 THEN m.targets.tightened_stop ELSE @],
         state_changed |-> newHigh \/ hit1 \/ hit2]

\* The stop the monitor compares the price with, from its locals.
StopOf(m) == final_stop_price(m.entry, m.highest, m.tp, m.be)

\* The monitor starting from its arguments alone, the state file unread.
MonitorEnter_from_arguments(contract, entry_price, quantity, dynamic_trailing_percent, active_profit_targets, active_regime, f) ==
    [con |-> contract, entry |-> entry_price, qty |-> quantity,
     highest |-> entry_price, tp |-> dynamic_trailing_percent,
     be |-> FALSE, pl |-> FALSE,
     regime |-> active_regime, targets |-> active_profit_targets]

\* The locals of monitor_position_with_trailing on entry: its arguments and
\* what it reads back from the state file (each with the argument as
\* default).
MonitorEnter(contract, entry_price, quantity, dynamic_trailing_percent, active_profit_targets, active_regime, f) ==
    LET trade_state == load_trade_state(f)
        has == trade_state.kind = "open"
    IN  [con |-> contract, entry |-> entry_price, qty |-> quantity,
         highest |-> IF has THEN trade_state.highest ELSE entry_price,
         tp |-> IF has THEN trade_state.tp ELSE dynamic_trailing_percent,
         be |-> IF has THEN trade_state.be ELSE FALSE,
         pl |-> IF has THEN trade_state.pl ELSE FALSE,
         regime |-> active_regime, targets |-> active_profit_targets]

\* The locals when no monitor is running.
NoMonitor ==
    [con |-> 0, entry |-> 0, qty |-> 0, highest |-> 0, tp |-> 0,
     be |-> FALSE, pl |-> FALSE, regime |-> "TREND",
     targets |-> [target_1 |-> 0, target_2 |-> 0, tightened_stop |-> 0]]

(***************************************************************************)
(* The broker.                                                             *)
(***************************************************************************)
\* Order status when wait_for_trade_completion returns: Filled, still
\* active after max_wait_sec (Submitted), or no longer active and not filled
\* (Cancelled).
Statuses == {"Filled", "Submitted", "Cancelled"}

NoOrder == [con |-> 0, amt |-> 0]

\* The position list: the signed size held per conId, 0 for no entry.
NoPositions == [c \in ConIds |-> 0]

(***************************************************************************)
(* close_position(contract).  conn: ib.isConnected(); positions: the       *)
(* position list before the order; f: the state file; status: the order    *)
(* status after the wait; gone: the holding left the position list during  *)
(* the wait by other means than this order being reported Filled (expiry,  *)
(* a close out of band).                                                   *)
(***************************************************************************)
\* close_position without its call of clear_trade_state.
FileAfterClose_never(position_closed, f) == f

\* close_position clearing the state file whatever position_closed is.
FileAfterClose_always(position_closed, f) == clear_trade_state(f)

\* "if position_closed: clear_trade_state()": the state file when
\* close_position returns.
FileAfterClose(position_closed, f) ==
    IF position_closed THEN clear_trade_state(f) ELSE f

\* The closing order always a SELL.
CloseAction_sell_only(held) == "SELL"

\* action = 'SELL' if pos.position > 0 else 'BUY'
CloseAction(held) == IF held > 0 THEN "SELL" ELSE "BUY"

\* close_position without its second look at the position list.
PositionClosed_no_final_check(filled, final_position_exists) == filled

\* position_closed when close_position returns: set by a Filled order, or
\* by "if not final_position_exists and not position_closed".
PositionClosed(filled, final_position_exists) ==
    filled \/ ~final_position_exists

\* close_position(contract) on a position list in which the contracts of
\* listed have an entry, those outside it none; positions gives the signed
\* size of an entry (0 for a listed contract: an entry of size 0).
close_position_listed(contract, conn, positions, listed, f, status, gone) ==
    LET held == positions[contract]
        matched == contract \in listed
        after == IF status = "Filled" \/ gone THEN 0 ELSE held
        filled == matched /\ status = "Filled"
        position_closed == PositionClosed(filled, after # 0)
    IN  IF ~conn
        THEN [ret |-> FALSE, file |-> f, positions |-> positions,
              orders |-> <<>>, status |-> "none", emails |-> {}]
        ELSE IF ~matched
        THEN [ret |-> position_closed,
              file |-> FileAfterClose(position_closed, f),
              positions |-> positions, orders |-> <<>>, status |-> "none",
              emails |-> {}]
        ELSE [ret |-> position_closed,
              file |-> FileAfterClose(position_closed, f),
              positions |-> [positions EXCEPT ![contract] = after],
              orders |-> << [con |-> contract, type |-> "MKT",
                             action |-> CloseAction(held),
                             qty |-> Abs(held)] >>,
              status |-> status,
              emails |-> IF filled THEN {"Position Closed"}
                         ELSE {"Close Error"}]

\* close_position(contract) on the position list the broker library keeps:
\* an entry for each holding of nonzero size and no other.
close_position(contract, conn, positions, f, status, gone) ==
    close_position_listed(contract, conn, positions,
                          {c \in ConIds : positions[c] # 0}, f, status, gone)

(***************************************************************************)
(* State.                                                                  *)
(***************************************************************************)
VARIABLES
    file,         \* content of trade_state.json
    pc,           \* "main": top of the main loop; "monitor": top of the
                  \* monitor loop; "exited": the process is not running
    mon,          \* locals of monitor_position_with_trailing
    positions,    \* ib.positions(): signed holding per conId
    pending,      \* an opening order left active by a timed-out wait
    connected,    \* ib.isConnected()
    market_open,  \* is_market_open()
    ev            \* what the last step of the program did (observation)

vars == <<file, pc, mon, positions, pending, connected, market_open, ev>>

NoEvent ==
    [op |-> "none", price |-> 0, stop |-> 0, closeCalled |-> FALSE, closeRet |-> FALSE,
     orders |-> <<>>, status |-> "none", emails |-> {}, saved |-> FALSE]

Event(op) == [NoEvent EXCEPT !.op = op]

Init ==
    /\ file = AbsentFile
    /\ pc = "main"
    /\ mon = NoMonitor
    /\ positions = NoPositions
    /\ pending = NoOrder
    /\ connected = TRUE
    /\ market_open \in BOOLEAN
    /\ ev = NoEvent

\* What the broker can do during the wait for a closing order: the order
\* status when the wait ends, and whether the holding has left the position
\* list by other means.  A lost connection (conn false) makes close_position
\* return before any wait.
CloseInputs ==
    {w \in [conn : BOOLEAN, status : Statuses, gone : BOOLEAN] :
        /\ w.gone => w.status # "Filled"
        /\ ~w.conn => w.status = "Cancelled" /\ ~w.gone}

(***************************************************************************)
(* monitor_position_with_trailing: one iteration of its while loop.        *)
(***************************************************************************)
\* The market-closed exit clearing the state file on its way out.
MonitorMarketClosed_clears ==
    /\ pc = "monitor"
    /\ ~market_open
    /\ pc' = "main"
    /\ mon' = NoMonitor
    /\ file' = clear_trade_state(file)
    /\ ev' = Event("market_closed")
    /\ UNCHANGED <<positions, pending, connected, market_open>>

\* if not is_market_open(): break
MonitorMarketClosed ==
    /\ pc = "monitor"
    /\ ~market_open
    /\ pc' = "main"
    /\ mon' = NoMonitor
    /\ ev' = Event("market_closed")
    /\ UNCHANGED <<file, positions, pending, connected, market_open>>

\* if not entry_price or entry_price <= 0: alert and break
MonitorInvalidEntry ==
    /\ pc = "monitor"
    /\ market_open
    /\ mon.entry <= 0
    /\ pc' = "main"
    /\ mon' = NoMonitor
    /\ ev' = [Event("invalid_entry") EXCEPT
                !.emails = {"Bot Critical Error - Invalid Entry Price"}]
    /\ UNCHANGED <<file, positions, pending, connected, market_open>>

\* The skipped iteration falling back on the entry price: the high is set
\* back to it.
MonitorSkipTick_resets_high ==
    /\ pc = "monitor"
    /\ market_open
    /\ mon.entry > 0
    /\ connected
    /\ mon' = [mon EXCEPT !.highest = mon.entry]
    /\ ev' = Event("skip")
    /\ UNCHANGED <<file, pc, positions, pending, connected, market_open>>

\* get_option_snapshot returns None, or no price source is valid: continue
MonitorSkipTick ==
    /\ pc = "monitor"
    /\ market_open
    /\ mon.entry > 0
    /\ connected
    /\ ev' = Event("skip")
    /\ UNCHANGED <<file, pc, mon, positions, pending, connected, market_open>>

\* The state file after the "if state_changed: save_trade_state(...)" of a
\* tick whose updates gave u.
PersistOnChange(u) ==
    IF u.state_changed
    THEN save_trade_state(u.mem.con, u.mem.entry, u.mem.qty, u.mem.highest,
                          u.mem.tp, u.mem.regime, u.mem.be, u.mem.pl)
    ELSE file

\* The stop comparison with < for <=.
StopHit_strict(m, current_price) == current_price < StopOf(m)

\* current_price <= final_stop_price
StopHit(m, current_price) == current_price <= StopOf(m)

\* The rest of an iteration once current_price is found valid: update,
\* persist on change, compare with the stop and either close and break, or
\* sleep and loop.
TickAt(current_price) ==
    \E u \in {MonitorUpdate(mon, current_price)} :
    LET f1 == PersistOnChange(u)
    IN  IF StopHit(u.mem, current_price)
        THEN \E w \in CloseInputs :
            LET c == close_position(u.mem.con, w.conn, positions, f1,
                                    w.status, w.gone)
            IN  /\ file' = c.file
                /\ positions' = c.positions
                /\ connected' = w.conn
                /\ pc' = "main"
                /\ mon' = NoMonitor
                /\ ev' = [op |-> "tick", price |-> current_price,
                          stop |-> StopOf(u.mem),
                          closeCalled |-> TRUE, closeRet |-> c.ret,
                          orders |-> c.orders, status |-> c.status,
                          emails |-> c.emails \cup
                             (IF c.ret THEN {}
                              ELSE {"Potential Issue: Stop Loss Close"}),
                          saved |-> u.state_changed]
        ELSE /\ file' = f1
             /\ mon' = u.mem
             /\ ev' = [Event("tick") EXCEPT !.price = current_price,
                                            !.stop = StopOf(u.mem),
                                            !.saved = u.state_changed]
             /\ UNCHANGED <<pc, positions, connected>>

\* A tick with a valid price.
MonitorTick ==
    /\ pc = "monitor"
    /\ market_open
    /\ mon.entry > 0
    /\ connected
    /\ \E current_price \in Prices(mon.entry) : TickAt(current_price)
    /\ UNCHANGED <<pending, market_open>>

\* The process is killed inside a tick: during the tick's write of the
\* state file (torn), or after it and before the stop is acted on.
MonitorTickKilled ==
    /\ pc = "monitor"
    /\ market_open
    /\ mon.entry > 0
    /\ connected
    /\ \E current_price \in Prices(mon.entry), torn \in BOOLEAN :
        LET u == MonitorUpdate(mon, current_price)
        IN  /\ u.state_changed
            /\ file' = IF torn THEN TornFile ELSE PersistOnChange(u)
            /\ ev' = [Event("tick_killed") EXCEPT !.price = current_price,
                                                   !.saved = ~torn]
    /\ pc' = "exited"
    /\ mon' = NoMonitor
    /\ UNCHANGED <<positions, pending, connected, market_open>>

\* get_option_snapshot on a lost connection raises; the exception handler
\* of the script alerts and the process ends.
MonitorCrash ==
    /\ pc = "monitor"
    /\ market_open
    /\ mon.entry > 0
    /\ ~connected
    /\ pc' = "exited"
    /\ mon' = NoMonitor
    /\ ev' = [Event("crash") EXCEPT !.emails = {"Bot Critical Error - Main"}]
    /\ UNCHANGED <<file, positions, pending, connected, market_open>>

(***************************************************************************)
(* The main loop: one iteration per step, by branch.                       *)
(***************************************************************************)
IsOpen(f) == load_trade_state(f).kind = "open"

\* The main loop taking every state for a flat one.
IsFlat_unchecked(f) == TRUE

\* load_trade_state returns an object whose is_position_open is not true.
IsFlat(f) == load_trade_state(f).kind = "flat"

\* spy_option_positions without its "p.position != 0" read as "> 0".
spy_option_positions_long_only == {c \in ConIds : positions[c] > 0}

\* spy_option_positions: the SPY option holdings with position != 0.
spy_option_positions == {c \in ConIds : positions[c] # 0}

\* The recovery rebuilding the targets from the low-VIX trailing stop of
\* the configuration instead of the trailing_percent of the record.
MainRecover_low_vix_targets ==
    /\ pc = "main"
    /\ IsOpen(file)
    /\ connected
    /\ LET trade_state == load_trade_state(file)
           active_profit_targets ==
               ProfitTargets(LOW_VIX_TRAILING_STOP, trade_state.regime)
       IN  mon' = MonitorEnter(trade_state.con, trade_state.entry,
                               trade_state.qty, trade_state.tp,
                               active_profit_targets, trade_state.regime,
                               file)
    /\ pc' = "monitor"
    /\ ev' = Event("recover")
    /\ UNCHANGED <<file, positions, pending, connected, market_open>>

\* Recovery: the state file holds an open record and its contract
\* qualifies; the targets are rebuilt and the monitor is entered.
MainRecover ==
    /\ pc = "main"
    /\ IsOpen(file)
    /\ connected
    /\ LET trade_state == load_trade_state(file)
           active_profit_targets ==
               ProfitTargets(trade_state.tp, trade_state.regime)
       IN  mon' = MonitorEnter(trade_state.con, trade_state.entry,
                               trade_state.qty, trade_state.tp,
                               active_profit_targets, trade_state.regime,
                               file)
    /\ pc' = "monitor"
    /\ ev' = Event("recover")
    /\ UNCHANGED <<file, positions, pending, connected, market_open>>

\* The failed recovery without its clear_trade_state().
MainRecoverFail_no_clear ==
    /\ pc = "main"
    /\ IsOpen(file)
    /\ connected
    /\ ev' = [Event("recover_fail") EXCEPT
                !.emails = {"Bot Recovery Failure"}]
    /\ UNCHANGED <<file, pc, mon, positions, pending, connected, market_open>>

\* Recovery: qualifyContracts returns nothing; alert, clear, continue.
MainRecoverFail ==
    /\ pc = "main"
    /\ IsOpen(file)
    /\ connected
    /\ file' = clear_trade_state(file)
    /\ ev' = [Event("recover_fail") EXCEPT
                !.emails = {"Bot Recovery Failure"}]
    /\ UNCHANGED <<pc, mon, positions, pending, connected, market_open>>

\* The process is killed during the clear_trade_state of a failed recovery,
\* after the alert.
MainRecoverFailKilled ==
    /\ pc = "main"
    /\ IsOpen(file)
    /\ connected
    /\ file' = TornFile
    /\ pc' = "exited"
    /\ ev' = [Event("recover_fail_killed") EXCEPT
                !.emails = {"Bot Recovery Failure"}]
    /\ UNCHANGED <<mon, positions, pending, connected, market_open>>

\* trade_spy_options returns before placing an order (market closed, no
\* data, no signal, no liquidity, no balance ...).
MainNoTrade ==
    /\ pc = "main"
    /\ IsFlat(file)
    /\ market_open
    /\ spy_option_positions = {}
    /\ ev' = Event("no_trade")
    /\ UNCHANGED <<file, pc, mon, positions, pending, connected, market_open>>

\* trade_spy_options places the opening BUY order and waits for it; when it
\* is Filled the entry record is written and the monitor entered.
MainOpenTrade ==
    /\ pc = "main"
    /\ IsFlat(file)
    /\ market_open
    /\ spy_option_positions = {}
    /\ connected
    /\ \E contract \in ConIds, qty \in Quantities, is_high_vix \in BOOLEAN,
          status \in Statuses, entry_price_filled \in FillPrices :
        LET regime_name == IF is_high_vix THEN "REVERSION" ELSE "TREND"
            current_trailing_percent ==
                IF is_high_vix THEN HIGH_VIX_TRAILING_STOP
                ELSE LOW_VIX_TRAILING_STOP
            active_profit_targets ==
                ProfitTargets(current_trailing_percent, regime_name)
            order == [con |-> contract, type |-> "MKT", action |-> "BUY",
                      qty |-> qty]
            f1 == save_trade_state(contract, entry_price_filled, qty,
                                   entry_price_filled,
                                   current_trailing_percent, regime_name,
                                   FALSE, FALSE)
        IN  /\ status = "Submitted" => pending = NoOrder
            /\ IF status = "Filled"
               THEN /\ file' = f1
                    /\ positions' = [positions EXCEPT ![contract] = qty]
                    /\ mon' = MonitorEnter(contract, entry_price_filled, qty,
                                           current_trailing_percent,
                                           active_profit_targets,
                                           regime_name, f1)
                    /\ pc' = "monitor"
                    /\ ev' = [Event("open") EXCEPT
                                !.orders = <<order>>,
                                !.emails = {"Trade Executed"},
                                !.saved = TRUE]
                    /\ UNCHANGED pending
               ELSE /\ pending' = IF status = "Submitted"
                                  THEN [con |-> contract, amt |-> qty]
                                  ELSE pending
                    /\ ev' = [Event("open_failed") EXCEPT
                                !.orders = <<order>>]
                    /\ UNCHANGED <<file, positions, mon, pc>>
    /\ UNCHANGED <<connected, market_open>>

\* Bad state file: load_trade_state raises, or returns an object with
\* is_position_open true that lacks a field the recovery branch reads
\* (KeyError).  The exception handler of the script alerts and the process
\* ends.
MainBadState ==
    /\ pc = "main"
    /\ load_trade_state(file).kind \in {"raises", "no_field"}
    /\ pc' = "exited"
    /\ ev' = [Event("bad_state") EXCEPT
                !.emails = {"Bot Critical Error - Main"}]
    /\ UNCHANGED <<file, mon, positions, pending, connected, market_open>>

\* Recovery with an entry_price of None: the contract qualifies, the
\* monitor is called and its first statement, which formats entry_price
\* with :.2f, raises TypeError before the loop and its validation.  The
\* exception handler of the script alerts and the process ends.
MainRecoverEntryNone ==
    /\ pc = "main"
    /\ load_trade_state(file).kind = "null_entry"
    /\ connected
    /\ pc' = "exited"
    /\ ev' = [Event("monitor_raises") EXCEPT
                !.emails = {"Bot Critical Error - Main"}]
    /\ UNCHANGED <<file, mon, positions, pending, connected, market_open>>

\* The ghost position taken under management instead of closed: a record is
\* written for it and the monitor entered.
MainGhost_adopt ==
    /\ pc = "main"
    /\ IsFlat(file)
    /\ market_open
    /\ \E ghost \in spy_option_positions :
        LET f1 == save_trade_state(ghost, LowEntry, Abs(positions[ghost]),
                                   LowEntry, LOW_VIX_TRAILING_STOP, "TREND",
                                   FALSE, FALSE)
        IN  /\ file' = f1
            /\ mon' = MonitorEnter(ghost, LowEntry, Abs(positions[ghost]),
                                   LOW_VIX_TRAILING_STOP,
                                   ProfitTargets(LOW_VIX_TRAILING_STOP,
                                                 "TREND"),
                                   "TREND", f1)
    /\ pc' = "monitor"
    /\ ev' = [Event("ghost") EXCEPT
                !.emails = {"Bot Safety Alert: Closing Unknown Position"},
                !.saved = TRUE]
    /\ UNCHANGED <<positions, pending, connected, market_open>>

\* Ghost position: the state file is flat and the broker reports a SPY
\* option holding; alert and close_position on the first one found.
MainGhost ==
    /\ pc = "main"
    /\ IsFlat(file)
    /\ market_open
    /\ \E ghost \in spy_option_positions, w \in CloseInputs :
        LET c == close_position(ghost, w.conn, positions, file, w.status,
                                w.gone)
        IN  /\ w.conn = connected
            /\ file' = c.file
            /\ positions' = c.positions
            /\ ev' = [op |-> "ghost", price |-> 0, stop |-> 0,
                      closeCalled |-> TRUE,
                      closeRet |-> c.ret, orders |-> c.orders,
                      status |-> c.status,
                      emails |-> c.emails \cup
                          {"Bot Safety Alert: Closing Unknown Position"},
                      saved |-> FALSE]
    /\ UNCHANGED <<pc, mon, pending, connected, market_open>>

\* State file flat and market closed: sleep.
MainIdle ==
    /\ pc = "main"
    /\ IsFlat(file)
    /\ ~market_open
    /\ ev' = Event("idle")
    /\ UNCHANGED <<file, pc, mon, positions, pending, connected, market_open>>

\* qualifyContracts on a lost connection raises; the exception handler of
\* the script alerts and the process ends.
MainCrash ==
    /\ pc = "main"
    /\ ~connected
    /\ IsOpen(file) \/ (IsFlat(file) /\ market_open /\ spy_option_positions = {})
    /\ pc' = "exited"
    /\ ev' = [Event("crash") EXCEPT !.emails = {"Bot Critical Error - Main"}]
    /\ UNCHANGED <<file, mon, positions, pending, connected, market_open>>

(***************************************************************************)
(* The environment: the clock, the broker, the operator.                   *)
(***************************************************************************)
Clock ==
    /\ market_open' = ~market_open
    /\ ev' = NoEvent
    /\ UNCHANGED <<file, pc, mon, positions, pending, connected>>

\* An opening order left active fills after the wait for it has ended.
BrokerLateFill ==
    /\ pending # NoOrder
    /\ positions[pending.con] + pending.amt <= MaxQty
    /\ positions' = [positions EXCEPT ![pending.con] = @ + pending.amt]
    /\ pending' = NoOrder
    /\ ev' = NoEvent
    /\ UNCHANGED <<file, pc, mon, connected, market_open>>

BrokerLateCancel ==
    /\ pending # NoOrder
    /\ pending' = NoOrder
    /\ ev' = NoEvent
    /\ UNCHANGED <<file, pc, mon, positions, connected, market_open>>

\* A short holding appears in the account out of band (an option written by
\* hand in the same account) while the script holds nothing.
BrokerForeign ==
    /\ pc = "main"
    /\ IsFlat(file)
    /\ pending = NoOrder
    /\ spy_option_positions = {}
    /\ \E c \in ConIds, q \in Quantities :
        positions' = [positions EXCEPT ![c] = 0 - q]
    /\ ev' = NoEvent
    /\ UNCHANGED <<file, pc, mon, pending, connected, market_open>>

\* A holding leaves the account out of band (expiry, a manual close, a
\* closing order that fills after the wait for it has ended).
BrokerExpire ==
    /\ \E c \in spy_option_positions :
        positions' = [positions EXCEPT ![c] = 0]
    /\ ev' = NoEvent
    /\ UNCHANGED <<file, pc, mon, pending, connected, market_open>>

Disconnect ==
    /\ pc # "exited"
    /\ connected
    /\ connected' = FALSE
    /\ ev' = NoEvent
    /\ UNCHANGED <<file, pc, mon, positions, pending, market_open>>

\* The process is killed between two steps.
Kill ==
    /\ pc # "exited"
    /\ pc' = "exited"
    /\ mon' = NoMonitor
    /\ ev' = NoEvent
    /\ UNCHANGED <<file, positions, pending, connected, market_open>>

\* The state file is damaged while the script is not running.
CorruptFile ==
    /\ pc = "exited"
    /\ file' \in BadFiles \cup {NullEntryFile}
    /\ file' # file
    /\ ev' = NoEvent
    /\ UNCHANGED <<pc, mon, positions, pending, connected, market_open>>

\* The script is started again and connects.
Restart ==
    /\ pc = "exited"
    /\ pc' = "main"
    /\ connected' = TRUE
    /\ ev' = NoEvent
    /\ UNCHANGED <<file, mon, positions, pending, market_open>>

Next ==
    \/ MonitorMarketClosed
    \/ MonitorInvalidEntry
    \/ MonitorSkipTick
    \/ MonitorTick
    \/ MonitorTickKilled
    \/ MonitorCrash
    \/ MainRecover
    \/ MainRecoverFail
    \/ MainRecoverFailKilled
    \/ MainNoTrade
    \/ MainOpenTrade
    \/ MainBadState
    \/ MainRecoverEntryNone
    \/ MainGhost
    \/ MainIdle
    \/ MainCrash
    \/ Clock
    \/ BrokerLateFill
    \/ BrokerLateCancel
    \/ BrokerForeign
    \/ BrokerExpire
    \/ Disconnect
    \/ Kill
    \/ CorruptFile
    \/ Restart

Spec == Init /\ [][Next]_vars

(***************************************************************************)
(* The monitor alone, called for a position entered at 2.00 with a         *)
(* trailing stop of 10 %, targets of 20 % and 40 % and a tightened stop of *)
(* 5 %, and fed the prices of ScenarioPrices.                               *)
(***************************************************************************)
\* The state file the opener wrote, and the monitor entered from it.
ScenarioInit ==
    /\ file = save_trade_state(1, Scenario.entry, 1, Scenario.entry,
                               Scenario.tp, "TREND", FALSE, FALSE)
    /\ pc = "monitor"
    /\ mon = MonitorEnter(1, Scenario.entry, 1, Scenario.tp, Scenario.targets,
                          "TREND", file)
    /\ positions = [NoPositions EXCEPT ![1] = 1]
    /\ pending = NoOrder
    /\ connected = TRUE
    /\ market_open = TRUE
    /\ ev = NoEvent

\* A tick with a valid price of the scenario.
ScenarioTick ==
    /\ pc = "monitor"
    /\ market_open
    /\ mon.entry > 0
    /\ connected
    /\ mon.entry = Scenario.entry
    /\ \E current_price \in FeedPrices(mon.entry) : TickAt(current_price)
    /\ UNCHANGED <<pending, market_open>>

ScenarioNext ==
    \/ ScenarioTick
    \/ MonitorSkipTick

ScenarioSpec == ScenarioInit /\ [][ScenarioNext]_vars

(***************************************************************************)
(* The monitor of ScalpingTunedBot.py with a breakeven cost buffer of 0,   *)
(* and one iteration of the monitor of THISONE_REFACTORED_FINAL_BOT.py,    *)
(* both called with the high-VIX parameters of the latter script: trailing *)
(* stop 20 %, targets 15 % and 30 %, tightened stop 5 %, entry 2.00.       *)
(***************************************************************************)
\* round(final_stop_price, 2) of ScalpingTunedBot.py as the floats give it,
\* for a BREAKEVEN_COST_BUFFER_PERCENT of buffer_percent.
FloatStopPriceBuffered(entry_price, highest_price, current_trailing_percent, breakeven_activated, buffer_percent) ==
    LET trailing ==
            FloatMul[Float[highest_price, 100],
                     FloatSub[Float[1, 1],
                              FloatDiv[Float[current_trailing_percent, 1000],
                                       Float[100, 1]]]]
        cost_buffer ==
            FloatAdd[Float[1, 1],
                     FloatDiv[Float[buffer_percent, 1000], Float[100, 1]]]
        floor == FloatMul[Float[entry_price, 100], cost_buffer]
    IN  RoundToCents[IF breakeven_activated THEN FloatMax[trailing, floor]
                     ELSE trailing]

\* round(final_stop_price, 2) of THISONE_REFACTORED_FINAL_BOT.py as the
\* floats give it: max(trailing_stop_price, entry_price) once breakeven is
\* activated.
THISONE_FloatStopPrice(entry_price, highest_price, current_trailing_percent, breakeven_activated) ==
    LET trailing ==
            FloatMul[Float[highest_price, 100],
                     FloatSub[Float[1, 1],
                              FloatDiv[Float[current_trailing_percent, 1000],
                                       Float[100, 1]]]]
    IN  RoundToCents[IF breakeven_activated
                     THEN FloatMax[trailing, Float[entry_price, 100]]
                     ELSE trailing]

\* The highs, trailing percentages and flags of a monitor called with Twin.
TwinStopInputs ==
    [highest_price : FeedPrices(Twin.entry),
     tp : {Twin.tp, Twin.targets.tightened_stop}, be : BOOLEAN]

\* The stops of ScalpingTunedBot.py with a buffer of 0.  Evaluated once.
ZeroBufferStops ==
    [x \in TwinStopInputs |->
        FloatStopPriceBuffered(Twin.entry, x.highest_price, x.tp, x.be, 0)]

\* The stops of THISONE_REFACTORED_FINAL_BOT.py.  Evaluated once.
THISONE_Stops ==
    [x \in TwinStopInputs |->
        THISONE_FloatStopPrice(Twin.entry, x.highest_price, x.tp, x.be)]

\* The stop of ScalpingTunedBot.py computed with the configured buffer
\* where a buffer of 0 is asked for.
final_stop_price_configured_buffer(m) == StopOf(m)

\* final_stop_price of ScalpingTunedBot.py with a buffer of 0, from the
\* monitor's locals.
final_stop_price_zero_buffer(m) ==
    ZeroBufferStops[[highest_price |-> m.highest, tp |-> m.tp, be |-> m.be]]

\* final_stop_price of THISONE_REFACTORED_FINAL_BOT.py, from the monitor's
\* locals.
THISONE_final_stop_price(m) ==
    THISONE_Stops[[highest_price |-> m.highest, tp |-> m.tp, be |-> m.be]]

\* The updates of one valid tick in THISONE_REFACTORED_FINAL_BOT.py.
THISONE_MonitorUpdate(m, current_price) ==
    LET newHigh == current_price > m.highest
        hit1 == ~m.be /\ GainReaches(current_price, m.entry, m.targets.target_1)
        hit2 == ~m.pl /\ GainReaches(current_price, m.entry, m.targets.target_2)
    IN  [mem |-> [m EXCEPT !.highest = IF newHigh THEN current_price ELSE @,
                           !.be = @ \/ hit1 \/ hit2,
                           !.pl = @ \/ hit2,
                           !.tp = IF hit2 THEN m.targets.tightened_stop ELSE @],
         state_changed |-> newHigh \/ hit1 \/ hit2]

\* One iteration of the while loop of THISONE_REFACTORED_FINAL_BOT.py for
\* a valid entry price: from the locals m and the state file f, with
\* is_market_open() = open and the price current_price after rounding
\* (0: no ticker, or a price the script skips).  What it leaves: the locals,
\* the state file at the stop comparison, whether it wrote it, the stop,
\* whether it called close_position, and whether the loop was left.
THISONE_Iteration(m, f, open, current_price) ==
    IF ~open
    THEN [mem |-> m, file |-> f, saved |-> FALSE, stop |-> 0,
          closeCalled |-> FALSE, returns |-> TRUE]
    ELSE IF current_price <= 0
    THEN [mem |-> m, file |-> f, saved |-> FALSE, stop |-> 0,
          closeCalled |-> FALSE, returns |-> FALSE]
    ELSE LET u == THISONE_MonitorUpdate(m, current_price)
             stop == THISONE_final_stop_price(u.mem)
         IN  [mem |-> u.mem,
              file |-> IF u.state_changed
                       THEN save_trade_state(u.mem.con, u.mem.entry,
                                             u.mem.qty, u.mem.highest,
                                             u.mem.tp, u.mem.regime,
                                             u.mem.be, u.mem.pl)
                       ELSE f,
              saved |-> u.state_changed, stop |-> stop,
              closeCalled |-> current_price <= stop,
              returns |-> current_price <= stop]

\* The state file the opener wrote, and the monitor entered from it.
TwinInit ==
    /\ file = save_trade_state(1, Twin.entry, 1, Twin.entry, Twin.tp,
                               "REVERSION", FALSE, FALSE)
    /\ pc = "monitor"
    /\ mon = MonitorEnter(1, Twin.entry, 1, Twin.tp, Twin.targets,
                          "REVERSION", file)
    /\ positions = [NoPositions EXCEPT ![1] = 1]
    /\ pending = NoOrder
    /\ connected = TRUE
    /\ market_open = TRUE
    /\ ev = NoEvent

\* A tick of ScalpingTunedBot.py with a valid price and a buffer of 0.
ZeroBufferTick ==
    /\ pc = "monitor"
    /\ market_open
    /\ mon.entry > 0
    /\ connected
    /\ \E current_price \in FeedPrices(mon.entry) :
        \E u \in {MonitorUpdate(mon, current_price)} :
        \E stop \in {final_stop_price_zero_buffer(u.mem)} :
        LET f1 == PersistOnChange(u)
        IN  IF current_price <= stop
            THEN \E w \in CloseInputs :
                LET c == close_position(u.mem.con, w.conn, positions, f1,
                                        w.status, w.gone)
                IN  /\ file' = c.file
                    /\ positions' = c.positions
                    /\ connected' = w.conn
                    /\ pc' = "main"
                    /\ mon' = NoMonitor
                    /\ ev' = [op |-> "tick", price |-> current_price,
                              stop |-> stop,
                              closeCalled |-> TRUE, closeRet |-> c.ret,
                              orders |-> c.orders, status |-> c.status,
                              emails |-> c.emails \cup
                                 (IF c.ret THEN {}
                                  ELSE {"Potential Issue: Stop Loss Close"}),
                              saved |-> u.state_changed]
            ELSE /\ file' = f1
                 /\ mon' = u.mem
                 /\ ev' = [Event("tick") EXCEPT !.price = current_price,
                                                !.stop = stop,
                                                !.saved = u.state_changed]
                 /\ UNCHANGED <<pc, positions, connected>>
    /\ UNCHANGED <<pending, market_open>>

\* The market closes or opens while the monitor runs.
TwinClock ==
    /\ pc = "monitor"
    /\ Clock

TwinNext ==
    \/ ZeroBufferTick
    \/ MonitorSkipTick
    \/ MonitorMarketClosed
    \/ TwinClock

TwinSpec == TwinInit /\ [][TwinNext]_vars

(***************************************************************************)
(* close_position alone, called on any position list: holdings long or     *)
(* short, and entries of size 0 beside them.                               *)
(***************************************************************************)
CloseInit ==
    /\ file \in {FlatFile,
                 save_trade_state(1, LowEntry, 1, LowEntry,
                                  LOW_VIX_TRAILING_STOP, "TREND", FALSE,
                                  FALSE)}
    /\ pc = "main"
    /\ mon = NoMonitor
    /\ positions \in [ConIds -> (0 - MaxQty)..MaxQty]
    /\ pending = NoOrder
    /\ connected = TRUE
    /\ market_open = TRUE
    /\ ev = NoEvent

\* One call of close_position(contract).
CloseCall ==
    /\ \E contract \in ConIds, listed \in SUBSET ConIds, w \in CloseInputs :
        LET c == close_position_listed(contract, w.conn, positions, listed,
                                       file, w.status, w.gone)
        IN  /\ {k \in ConIds : positions[k] # 0} \subseteq listed
            /\ file' = c.file
            /\ positions' = c.positions
            /\ connected' = w.conn
            /\ ev' = [op |-> "close", price |-> 0, stop |-> 0,
                      closeCalled |-> TRUE, closeRet |-> c.ret,
                      orders |-> c.orders, status |-> c.status,
                      emails |-> c.emails, saved |-> FALSE]
    /\ UNCHANGED <<pc, mon, pending, market_open>>

\* The broker: a holding appears or changes size out of band.
CloseBroker ==
    /\ \E c \in ConIds, q \in (0 - MaxQty)..MaxQty :
        positions' = [positions EXCEPT ![c] = q]
    /\ ev' = NoEvent
    /\ UNCHANGED <<file, pc, mon, pending, connected, market_open>>

CloseNext ==
    \/ CloseCall
    \/ CloseBroker

CloseSpec == CloseInit /\ [][CloseNext]_vars

(***************************************************************************)
(* One invocation of monitor_position_with_trailing followed statement by  *)
(* statement through the wait of close_position, on a day whose market     *)
(* closes.  pc = "wait": inside wait_for_trade_completion, with pending    *)
(* the closing order, its status and the polls slept so far.               *)
(***************************************************************************)
\* def wait_for_trade_completion(ib_instance, trade, max_wait_sec=60)
max_wait_sec == 60

\* The wait going on for as long as the trade is active.
WaitContinues_while_active(active, elapsed) == active

\* while trade.isActive() and (time.time() - start_time) < max_wait_sec
WaitContinues(active, elapsed) == active /\ elapsed < max_wait_sec

\* trade.isActive(): neither filled nor cancelled.
IsActive(status) == status = "Submitted"

\* The monitor entered on the record the opener wrote, the entry price
\* reported or not.
LiveInit ==
    /\ \E entry_price \in {0, Scenario.entry} :
        /\ file = save_trade_state(1, entry_price, 1, entry_price,
                                   Scenario.tp, "TREND", FALSE, FALSE)
        /\ mon = MonitorEnter(1, entry_price, 1, Scenario.tp,
                              Scenario.targets, "TREND", file)
    /\ pc = "monitor"
    /\ positions = [NoPositions EXCEPT ![1] = 1]
    /\ pending = NoOrder
    /\ connected = TRUE
    /\ market_open = TRUE
    /\ ev = NoEvent

\* An iteration with a valid price that ends without a wait: the stop is
\* not hit, or close_position returns before placing an order (not
\* connected, or no matching position).
LiveTick ==
    /\ pc = "monitor"
    /\ market_open
    /\ mon.entry > 0
    /\ connected
    /\ \E current_price \in FeedPrices(mon.entry) :
        /\ TickAt(current_price)
        /\ pc' = "main" => ~connected' \/ positions[mon.con] = 0
    /\ UNCHANGED <<pending, market_open>>

\* An iteration whose stop is hit with the connection up and the position
\* listed: close_position places its market order and starts the wait.
LiveStopOrder ==
    /\ pc = "monitor"
    /\ market_open
    /\ mon.entry > 0
    /\ connected
    /\ positions[mon.con] # 0
    /\ \E current_price \in FeedPrices(mon.entry) :
        \E u \in {MonitorUpdate(mon, current_price)} :
            /\ StopHit(u.mem, current_price)
            /\ file' = PersistOnChange(u)
            /\ mon' = u.mem
            /\ ev' = [Event("stop_order") EXCEPT
                        !.price = current_price,
                        !.stop = StopOf(u.mem),
                        !.closeCalled = TRUE,
                        !.orders = << [con |-> u.mem.con, type |-> "MKT",
                                       action |-> CloseAction(positions[u.mem.con]),
                                       qty |-> Abs(positions[u.mem.con])] >>,
                        !.status = "Submitted",
                        !.saved = u.state_changed]
            /\ pending' = [con |-> u.mem.con, amt |-> positions[u.mem.con],
                           status |-> "Submitted", polls |-> 0]
    /\ pc' = "wait"
    /\ UNCHANGED <<positions, connected, market_open>>

\* ib_instance.sleep(1): the trade is active and the time is not up.
LiveWaitPoll ==
    /\ pc = "wait"
    /\ WaitContinues(IsActive(pending.status), pending.polls)
    /\ pending' = [pending EXCEPT
                     !.polls = IF @ <= max_wait_sec THEN @ + 1 ELSE @]
    /\ UNCHANGED <<file, pc, mon, positions, connected, market_open, ev>>

\* The broker fills or cancels the order being waited for.
LiveBrokerSettles ==
    /\ pc = "wait"
    /\ IsActive(pending.status)
    /\ \E status \in Statuses \ {"Submitted"} :
        pending' = [pending EXCEPT !.status = status]
    /\ UNCHANGED <<file, pc, mon, positions, connected, market_open, ev>>

\* The wait is over: the rest of close_position, and the monitor's break.
LiveWaitEnds ==
    /\ pc = "wait"
    /\ ~WaitContinues(IsActive(pending.status), pending.polls)
    /\ \E w \in CloseInputs :
        /\ w.conn
        /\ w.status = pending.status
        /\ LET c == close_position(mon.con, TRUE, positions, file, w.status,
                                   w.gone)
           IN  /\ file' = c.file
               /\ positions' = c.positions
               /\ ev' = [op |-> "tick", price |-> ev.price,
                         stop |-> ev.stop,
                         closeCalled |-> TRUE, closeRet |-> c.ret,
                         orders |-> c.orders, status |-> c.status,
                         emails |-> c.emails \cup
                            (IF c.ret THEN {}
                             ELSE {"Potential Issue: Stop Loss Close"}),
                         saved |-> ev.saved]
    /\ pc' = "main"
    /\ mon' = NoMonitor
    /\ pending' = NoOrder
    /\ UNCHANGED <<connected, market_open>>

\* The connection is lost while the monitor runs.
LiveDisconnect ==
    /\ pc = "monitor"
    /\ connected
    /\ connected' = FALSE
    /\ UNCHANGED <<file, pc, mon, positions, pending, market_open, ev>>

\* 16:00 Eastern passes: the market closes, and stays closed for longer
\* than the invocation can last.
LiveMarketCloses ==
    /\ pc \in {"monitor", "wait"}
    /\ market_open
    /\ market_open' = FALSE
    /\ UNCHANGED <<file, pc, mon, positions, pending, connected, ev>>

\* The statements of the invocation.
LiveMonitorStep ==
    \/ MonitorMarketClosed
    \/ MonitorInvalidEntry
    \/ MonitorSkipTick
    \/ MonitorCrash
    \/ LiveTick
    \/ LiveStopOrder
    \/ LiveWaitPoll
    \/ LiveWaitEnds

LiveNext ==
    \/ MonitorMarketClosed
    \/ MonitorInvalidEntry
    \/ MonitorSkipTick
    \/ MonitorCrash
    \/ LiveTick
    \/ LiveStopOrder
    \/ LiveWaitPoll
    \/ LiveWaitEnds
    \/ LiveBrokerSettles
    \/ LiveDisconnect
    \/ LiveMarketCloses

\* The process keeps executing its statements, and the clock reaches the
\* close of the market; the broker owes nothing.
LiveSpec ==
    /\ LiveInit
    /\ [][LiveNext]_vars
    /\ WF_vars(LiveMonitorStep)
    /\ WF_vars(LiveMarketCloses)

(***************************************************************************)
(* Properties.                                                             *)
(***************************************************************************)

\* C1: no persisted record has profit_lock_activated = true with
\* breakeven_activated = false.
C1_ProfitLockImpliesBreakeven ==
    file.kind = "open" => (file.pl => file.be)

\* A tick of the monitor has just written a record with both flags set.
C1_Witness ==
    /\ ev.op = "tick"
    /\ ev.saved
    /\ file.kind = "open"
    /\ file.pl
    /\ file.be

\* A step that is one tick of the monitor with a valid price.
TickStep == pc = "monitor" /\ ev'.op = "tick"

\* The locals of the monitor at the stop comparison of a tick step.
TickMem == MonitorUpdate(mon, ev'.price).mem

\* C2 as stated: on every tick with breakeven_activated, the rounded
\* final_stop_price compared with the price is >= entry_price * (1 +
\* BREAKEVEN_COST_BUFFER_PERCENT / 100).
C2_Original ==
    [][TickStep /\ TickMem.be =>
          ev'.stop * PCT >= breakeven_plus_price(mon.entry)]_vars

\* C2 amended: on every tick with breakeven_activated, the rounded
\* final_stop_price compared with the price is >= entry_price * (1 +
\* BREAKEVEN_COST_BUFFER_PERCENT / 100) rounded to 2 decimals.
C2_RoundedBreakevenFloor ==
    [][TickStep /\ TickMem.be =>
          ev'.stop >= RoundHalfEven(breakeven_plus_price(mon.entry), PCT)]_vars

\* A tick has compared the price with a stop while breakeven is active.
C2_Witness ==
    /\ ev.op = "tick"
    /\ pc = "monitor"
    /\ mon.be
    /\ ev.stop = StopOf(mon)
    /\ ev.stop >= mon.entry

\* C3: highest_price never decreases from tick to tick, in the monitor's
\* memory and in successive persisted records, and the monitor's value is
\* the persisted one at every tick boundary, whatever the tick (valid,
\* skipped, market closed) and across restarts.
C3_HighestNonDecreasing ==
    [][/\ file.kind = "open" /\ file'.kind = "open"
          => file'.highest >= file.highest
       /\ pc = "monitor" /\ pc' = "monitor"
          => mon'.highest >= mon.highest
       /\ pc' = "monitor"
          => file'.kind = "open" /\ mon'.highest = file'.highest]_vars

\* A tick has raised the persisted high above the entry price.
C3_Witness ==
    /\ ev.op = "tick"
    /\ ev.saved
    /\ pc = "monitor"
    /\ mon.highest = ev.price
    /\ file.highest = ev.price
    /\ file.highest > file.entry

\* C4: trailing_percent never increases over a position's lifetime, in
\* successive persisted records and in the monitor's memory, for both
\* regimes and across recoveries.
C4_TrailingNonIncreasing ==
    [][/\ file.kind = "open" /\ file'.kind = "open" => file'.tp <= file.tp
       /\ pc = "monitor" /\ pc' = "monitor" => mon'.tp <= mon.tp
       /\ pc' = "monitor"
          => /\ mon'.tp = file'.tp
             /\ mon'.targets.tightened_stop <= mon'.tp]_vars

\* The profit lock has tightened the persisted trailing_percent.
C4_Witness ==
    /\ file.kind = "open"
    /\ file.pl
    /\ file.regime = "REVERSION"
    /\ file.tp = REVERSION_TIGHTENED_STOP
    /\ file.tp < HIGH_VIX_TRAILING_STOP
    /\ pc = "monitor"

\* C5: highest_price >= entry_price in every persisted open record and in
\* the monitor at every tick boundary; the record written at entry has
\* highest_price = entry_price.
C5_HighestAtLeastEntry ==
    /\ file.kind = "open" => file.highest >= file.entry
    /\ pc = "monitor" => mon.highest >= mon.entry
    /\ ev.op = "open" => file.kind = "open" /\ file.highest = file.entry

\* The monitor has taken a price below the entry price without closing.
C5_Witness ==
    /\ ev.op = "tick"
    /\ pc = "monitor"
    /\ ev.price < mon.entry
    /\ mon.highest >= mon.entry
    /\ file.highest = mon.highest

\* C6: breakeven_activated and profit_lock_activated only move from false
\* to true over a position's lifetime: in successive persisted records, in
\* the monitor from tick to tick, and the monitor's flags are the persisted
\* ones at every tick boundary, so a recovery resumes in the state the
\* monitor was in.
C6_FlagsMonotonic ==
    [][/\ file.kind = "open" /\ file'.kind = "open"
          => (file.be => file'.be) /\ (file.pl => file'.pl)
       /\ pc = "monitor" /\ pc' = "monitor"
          => (mon.be => mon'.be) /\ (mon.pl => mon'.pl)
       /\ pc' = "monitor"
          => mon'.be = file'.be /\ mon'.pl = file'.pl]_vars

\* A recovery has resumed the monitor with profit lock already active.
C6_Witness ==
    /\ ev.op = "recover"
    /\ pc = "monitor"
    /\ mon.pl
    /\ mon.be

\* C7 as stated: when the monitor finds the market closed at the start of
\* a tick it invokes close_position before it returns.
C7_MarketClosedCloses ==
    ev.op = "market_closed" => ev.closeCalled

\* C8: on a tick with a valid price, close_position is invoked if and only
\* if current_price <= final_stop_price, the stop being computed from
\* highest_price, trailing_percent and the flags as updated by that tick.
C8_CloseIffStopHit ==
    [][TickStep =>
          /\ ev'.stop = final_stop_price(TickMem.entry, TickMem.highest,
                                         TickMem.tp, TickMem.be)
          /\ ev'.closeCalled <=> ev'.price <= ev'.stop
          /\ ~ev'.closeCalled => pc' = "monitor" /\ mon' = TickMem]_vars

\* A tick has raised the high, written the record and closed on a price
\* equal to the stop computed from the new high.
C8_Witness ==
    /\ ev.op = "tick"
    /\ ev.closeCalled
    /\ ev.saved
    /\ ev.price = ev.stop

\* A step in which close_position was called and placed an order.
CloseOrderStep ==
    /\ ev'.closeCalled
    /\ ev'.orders # <<>>
    /\ \/ pc = "monitor" /\ ev'.op = "tick"
       \/ pc = "main" /\ ev'.op = "ghost"

\* The state file when close_position is entered in such a step.
PreCloseFile ==
    IF ev'.op = "tick" THEN PersistOnChange(MonitorUpdate(mon, ev'.price))
    ELSE file

\* C9: when close_position has found the matching holding and its order
\* is reported Filled, the state file is flat, a close notification has been
\* emitted and the return value is success.
C9_FilledClearsState ==
    ev.closeCalled /\ ev.orders # <<>> /\ ev.status = "Filled"
        => /\ file = FlatFile
           /\ "Position Closed" \in ev.emails
           /\ ev.closeRet
           /\ positions[ev.orders[1].con] = 0

\* The monitor has closed an open position on a stop with a filled order.
C9_Witness ==
    /\ ev.op = "tick"
    /\ ev.closeCalled
    /\ ev.status = "Filled"
    /\ ev.orders # <<>>
    /\ ev.closeRet

\* C10 as stated: when the closing order is not Filled at the end of the
\* wait, close_position returns failure, emits an alert and leaves the
\* state file as it was, whatever the position list holds after the wait.
C10_Original ==
    [][CloseOrderStep /\ ev'.status # "Filled" =>
          /\ ~ev'.closeRet
          /\ "Close Error" \in ev'.emails
          /\ file' = PreCloseFile]_vars

\* C10 amended: when the closing order is not Filled at the end of the wait,
\* close_position emits an alert and, if the position list read after the
\* wait still holds the contract with a nonzero size, returns failure and
\* leaves the state file as it was; if the holding is gone from the list it
\* clears the state file and returns success.
C10_NotFilledKeepsStateIfHeld ==
    [][CloseOrderStep /\ ev'.status # "Filled" =>
          /\ "Close Error" \in ev'.emails
          /\ IF positions'[ev'.orders[1].con] # 0
             THEN ~ev'.closeRet /\ file' = PreCloseFile
             ELSE ev'.closeRet /\ file' = FlatFile]_vars

\* The monitor's close on a stop has timed out with the holding still
\* there: failure, alert, record still open.
C10_Witness ==
    /\ ev.op = "tick"
    /\ ev.closeCalled
    /\ ev.status = "Submitted"
    /\ ~ev.closeRet
    /\ "Close Error" \in ev.emails
    /\ file.kind = "open"
    /\ positions[file.con] # 0

\* C11 as stated: when close_position finds no entry for the contract in
\* the position list it submits no order, returns success, leaves the state
\* file flat and emits a notification through send_email.
C11_NoMatchNotifies ==
    ev.op = "tick" /\ ev.closeCalled /\ connected /\ ev.orders = <<>>
        => /\ ev.closeRet
           /\ file = FlatFile
           /\ ev.emails # {}

\* A step in which close_position was called and returned success, and the
\* contract it was called for.
CloseSuccessStep ==
    /\ ev'.closeCalled
    /\ ev'.closeRet
    /\ \/ pc = "monitor" /\ ev'.op = "tick"
       \/ pc = "main" /\ ev'.op = "ghost"

ClosedContract == IF ev'.op = "tick" THEN mon.con ELSE ev'.orders[1].con

C13_OneOppositeOrder ==
    [][ev'.closeCalled /\ ev'.op \in {"tick", "ghost"} =>
          /\ Len(ev'.orders) <= 1
          /\ ev'.orders # <<>> =>
                LET order == ev'.orders[1]
                    held == positions[order.con]
                IN  /\ held # 0
                    /\ order.type = "MKT"
                    /\ order.action = IF held > 0 THEN "SELL" ELSE "BUY"
                    /\ order.qty = Abs(held)
                    /\ order.qty > 0
                    /\ ev'.op = "tick" => order.con = mon.con]_vars

\* A short holding found as a ghost position has been closed with a BUY.
C13_Witness ==
    /\ ev.op = "ghost"
    /\ Len(ev.orders) = 1
    /\ ev.orders[1].action = "BUY"
    /\ ev.status = "Filled"
    /\ positions[ev.orders[1].con] = 0

\* One iteration of the main loop that starts with the state file read as
\* flat while the position list holds a SPY option.
FlatCycleWithHolding ==
    /\ pc = "main"
    /\ ev'.op # "none"
    /\ IsFlat(file)
    /\ \E c \in ConIds : positions[c] # 0

\* The iteration has submitted exactly one order, the closing order of a
\* holding of the position list.
OneCloseOrder ==
    /\ ev'.closeCalled
    /\ Len(ev'.orders) = 1
    /\ positions[ev'.orders[1].con] # 0
    /\ ev'.orders[1].qty = Abs(positions[ev'.orders[1].con])

\* C14 as stated: a supervision cycle that starts with no persisted open
\* state while the broker reports a SPY option holding submits exactly one
\* close order, whether the market is open or closed.
C14_Original ==
    [][FlatCycleWithHolding => OneCloseOrder]_vars

\* C14 amended: a supervision cycle that starts with no persisted open
\* state, the market open and the broker connection up, while the broker
\* reports a SPY option holding, submits exactly one close order; with the
\* market closed it submits none.
C14_GhostClosedWhenMarketOpen ==
    [][FlatCycleWithHolding =>
          /\ market_open /\ connected
                => ev'.op = "ghost" /\ OneCloseOrder
          /\ ~market_open => ev'.orders = <<>> /\ ~ev'.closeCalled]_vars

\* A ghost position was met with the market open: one SELL order was
\* submitted, and is still working when the wait ends.
C14_Witness ==
    /\ ev.op = "ghost"
    /\ Len(ev.orders) = 1
    /\ ev.orders[1].action = "SELL"
    /\ ev.status = "Submitted"
    /\ market_open

\* C15: a supervision cycle whose load returns an open record and whose
\* contract does not qualify ends with the state file flat, the alert
\* "Bot Recovery Failure" sent, the monitor not entered and no order
\* submitted.
C15_RecoveryFailureClears ==
    [][pc = "main" /\ ev'.op = "recover_fail" =>
          /\ IsOpen(file)
          /\ IsFlat(file')
          /\ "Bot Recovery Failure" \in ev'.emails
          /\ pc' = "main"
          /\ mon' = NoMonitor
          /\ ev'.orders = <<>>
          /\ ~ev'.closeCalled
          /\ positions' = positions
          /\ pending' = pending]_vars

\* A recovery has failed while the holding is still at the broker: the
\* record is gone and the main loop goes on.
C15_Witness ==
    /\ ev.op = "recover_fail"
    /\ file = FlatFile
    /\ pc = "main"
    /\ \E c \in ConIds : positions[c] > 0

\* C16: the monitor is entered only by the opener or the recovery, for the
\* contract, entry price and quantity of the open record in the state file;
\* an open record is created only by the opener and keeps its contract,
\* entry price and quantity for as long as it is open; a ghost-position
\* cycle writes no record and does not enter the monitor.
C16_NoGhostAdoption ==
    [][/\ pc' = "monitor" /\ pc # "monitor"
          => /\ ev'.op \in {"open", "recover"}
             /\ file'.kind = "open"
             /\ mon'.con = file'.con
             /\ mon'.entry = file'.entry
             /\ mon'.qty = file'.qty
       /\ file'.kind = "open" /\ file.kind # "open"
          => pc = "main" /\ ev'.op = "open"
       /\ file'.kind = "open" /\ file.kind = "open"
          => /\ file'.con = file.con
             /\ file'.entry = file.entry
             /\ file'.qty = file.qty
       /\ pc = "main" /\ ev'.op = "ghost"
          => file'.kind # "open" /\ pc' = "main" /\ mon' = NoMonitor]_vars

\* The close of a ghost position has failed and the holding is still
\* there: no record was written for it and the monitor was not entered.
C16_Witness ==
    /\ ev.op = "ghost"
    /\ ev.status = "Cancelled"
    /\ ~ev.closeRet
    /\ Len(ev.orders) = 1
    /\ positions[ev.orders[1].con] # 0
    /\ file.kind # "open"
    /\ pc = "main"

\* load_trade_state(f) is an open record with the fields of m.
LoadsAs(f, m) ==
    LET trade_state == load_trade_state(f)
    IN  /\ trade_state.kind = "open"
        /\ trade_state.con = m.con
        /\ trade_state.entry = m.entry
        /\ trade_state.qty = m.qty
        /\ trade_state.highest = m.highest
        /\ trade_state.tp = m.tp
        /\ trade_state.regime = m.regime
        /\ trade_state.be = m.be
        /\ trade_state.pl = m.pl

C18_ClearIdempotent ==
    LET once == clear_trade_state(file)
        twice == clear_trade_state(once)
    IN  /\ once = FlatFile
        /\ twice = once
        /\ load_trade_state(twice) = FlatFile

\* close_position has cleared a state file that held no open record: the
\* successful close of a ghost position.
C18_Witness ==
    /\ ev.op = "ghost"
    /\ ev.closeRet
    /\ ev.status = "Submitted"
    /\ file = FlatFile
    /\ clear_trade_state(file) = file

\* C19 as stated: whatever the state file holds that is not a well-formed
\* record (absent, not parseable, not an object, an open object with
\* fields missing), the supervision cycle treats the state as flat and the
\* main loop goes on.
C19_BadStateTreatedFlat ==
    [][/\ pc = "main"
       /\ file \in BadFiles \cup {AbsentFile}
       /\ ev'.op \notin {"none", "crash"}
       => /\ pc' = "main"
          /\ ev'.op \in {"idle", "no_trade", "open", "open_failed",
                          "ghost"}]_vars

\* C20 as stated: when the process is killed during save_trade_state or
\* clear_trade_state, a later load_trade_state returns the record stored
\* before the write began or the record being written.
C20_KilledWriteOldOrNew ==
    [][/\ pc = "monitor" /\ ev'.op = "tick_killed"
          => load_trade_state(file') \in
                {load_trade_state(file),
                 load_trade_state(
                     PersistOnChange(MonitorUpdate(mon, ev'.price)))}
       /\ pc = "main" /\ ev'.op = "recover_fail_killed"
          => load_trade_state(file') \in
                {load_trade_state(file),
                 load_trade_state(clear_trade_state(file))}]_vars

(***************************************************************************)
(* C21 - C30: degraded closes, skipped ticks, scenarios, restart.          *)
(***************************************************************************)
\* A tick step whose close_position returned failure.
FailedStopClose ==
    pc = "monitor" /\ ev'.op = "tick" /\ ev'.closeCalled /\ ~ev'.closeRet

\* What the monitor does on such a step: it alerts and stops looping, and
\* the record it had persisted is unchanged and still open.
FailedCloseHandled ==
    /\ "Potential Issue: Stop Loss Close" \in ev'.emails
    /\ pc' = "main"
    /\ file' = PreCloseFile
    /\ IsOpen(file')

\* The step of the script that follows a failed stop close at once (the
\* process not killed meanwhile).
CycleAfterFailedClose ==
    /\ pc = "main"
    /\ ev.op = "tick" /\ ev.closeCalled /\ ~ev.closeRet
    /\ ev'.op \notin {"none", "recover_fail_killed"}

\* The monitor is re-entered for the position of the persisted record.
ReentersMonitor ==
    /\ ev'.op = "recover"
    /\ pc' = "monitor"
    /\ file' = file
    /\ LoadsAs(file, mon')

\* C21 as stated: when close_position, called from the monitor, returns
\* failure, the monitor alerts and stops looping with the persisted record
\* unchanged and still open, and the next cycle of the main loop loads the
\* same record and re-enters the monitor for the same position.
C21_Original ==
    [][/\ FailedStopClose => FailedCloseHandled
       /\ CycleAfterFailedClose => ReentersMonitor]_vars

\* C21: when close_position, called from the monitor, returns failure, the
\* monitor alerts and stops looping with the persisted record unchanged and
\* still open, and the next cycle of the main loop takes the recovery branch
\* on the same record and opens no trade: it re-enters the monitor for the
\* same position when the connection is up and the contract qualifies,
\* clears the record with a recovery-failure alert when the contract does
\* not qualify, and ends the process with a critical alert when the
\* connection is down.
C21_FailedCloseRecovers ==
    [][/\ FailedStopClose => FailedCloseHandled
       /\ CycleAfterFailedClose =>
             /\ ev'.orders = <<>>
             /\ \/ connected /\ ReentersMonitor
                \/ /\ connected
                   /\ ev'.op = "recover_fail"
                   /\ "Bot Recovery Failure" \in ev'.emails
                   /\ file' = FlatFile
                \/ /\ ~connected
                   /\ ev'.op = "crash"
                   /\ "Bot Critical Error - Main" \in ev'.emails
                   /\ pc' = "exited"
                   /\ file' = file]_vars

C21_Witness ==
    /\ pc = "main"
    /\ ev.op = "tick" /\ ev.closeCalled /\ ~ev.closeRet
    /\ "Potential Issue: Stop Loss Close" \in ev.emails
    /\ IsOpen(file)
    /\ connected

\* C22 as stated: whenever the monitor is entered with an entry price that
\* is zero, negative or absent, the critical invalid-entry alert is sent and
\* the monitor returns without writing the record, without an order and
\* without ending the process.
C22_InvalidEntryAborts ==
    [][ev'.op \in {"invalid_entry", "monitor_raises"} =>
          /\ "Bot Critical Error - Invalid Entry Price" \in ev'.emails
          /\ file' = file
          /\ ev'.orders = <<>>
          /\ ~ev'.saved
          /\ positions' = positions
          /\ pc' = "main"]_vars

\* C23: a tick on which no snapshot or no valid price is available changes
\* none of highest_price, trailing_percent and the two flags, writes
\* nothing, submits no order and goes on to the next poll.
C23_SkipChangesNothing ==
    [][pc = "monitor" /\ ev'.op = "skip" =>
          /\ mon' = mon
          /\ file' = file
          /\ ~ev'.saved
          /\ ev'.orders = <<>>
          /\ ~ev'.closeCalled
          /\ positions' = positions
          /\ pending' = pending
          /\ pc' = "monitor"]_vars

C23_Witness ==
    /\ pc = "monitor"
    /\ ev.op = "skip"
    /\ mon.highest > mon.entry
    /\ mon.be

\* The ticks of Scenario A, and the high each of them finds: 2.00, 2.10,
\* 2.40, 2.30, 2.28.
ScenarioATicks == <<200, 210, 240, 230, 228>>

ScenarioAHighs == <<200, 200, 210, 240, 240>>

\* A tick step of the monitor entered with the arguments of the scenarios,
\* at the price current_price when the high is highest_price.
ScenarioTickStep(highest_price, current_price) ==
    /\ TickStep
    /\ mon.entry = Scenario.entry
    /\ mon.targets = Scenario.targets
    /\ mon.highest = highest_price
    /\ ev'.price = current_price

\* C24 as stated: in Scenario A (entry 2.00, trailing 10 %, targets 20 % and
\* 40 %, tightened stop 5 %, ticks 2.00, 2.10, 2.40, 2.30, 2.28) no tick
\* invokes close_position, breakeven_activated is false after the ticks
\* before 2.40 and true from the 2.40 tick on, the stop is 2.16 from that
\* tick on, profit_lock_activated stays false and trailing_percent 10.
C24_ScenarioA ==
    [][\A i \in DOMAIN ScenarioATicks :
          ScenarioTickStep(ScenarioAHighs[i], ScenarioATicks[i]) /\ ~mon.pl =>
             /\ ~ev'.closeCalled
             /\ mon'.be = (i >= 3)
             /\ i >= 3 => ev'.stop = 216
             /\ ~mon'.pl
             /\ mon'.tp = Scenario.tp]_vars

\* C25 as stated: in Scenario B (Scenario A continued) the tick at 2.80,
\* which finds the high at 2.40, sets profit_lock_activated and
\* trailing_percent 5 and gives a stop of 2.66 without closing, and the
\* tick at 2.60 that follows it invokes close_position.
C25_ScenarioB ==
    [][/\ ScenarioTickStep(240, 280) /\ ~mon.pl =>
             /\ ~ev'.closeCalled
             /\ mon'.pl
             /\ mon'.tp = Scenario.targets.tightened_stop
             /\ ev'.stop = 266
       /\ ScenarioTickStep(280, 260) =>
             /\ ev'.stop = 266
             /\ ev'.closeCalled]_vars

\* The record r holds the four risk fields of the monitor locals m.
HoldsRiskState(r, m) ==
    /\ r.kind = "open"
    /\ r.highest = m.highest
    /\ r.tp = m.tp
    /\ r.be = m.be
    /\ r.pl = m.pl

\* The process is killed in the monitor loop, outside a write of the state
\* file: between two iterations, or inside a tick after its write.
KilledInMonitor ==
    /\ pc = "monitor"
    /\ pc' = "exited"
    /\ \/ ev'.op = "none"
       \/ ev'.op = "tick_killed" /\ ev'.saved

\* The locals the monitor would start with if recovery read the file f.
RecoveredFrom(f) ==
    LET trade_state == load_trade_state(f)
    IN  MonitorEnter(trade_state.con, trade_state.entry, trade_state.qty,
                     trade_state.tp,
                     ProfitTargets(trade_state.tp, trade_state.regime),
                     trade_state.regime, f)

\* C26 as stated: a kill in the monitor loop outside a state-file write
\* leaves in the file the risk fields the monitor held at the end of its
\* last completed tick.
C26_Original ==
    [][KilledInMonitor => HoldsRiskState(load_trade_state(file'), mon)]_vars

\* C26: a kill in the monitor loop outside a state-file write leaves in the
\* file the risk fields the monitor held at the end of its last completed
\* tick or, when the kill falls inside a tick after its write, the fields
\* that tick had just written; the stop computed from the file is in both
\* cases not lower than the stop of the last completed tick; and a recovery
\* starts the monitor with the fields of the file.
C26_RecoveredStateNotLooser ==
    [][/\ KilledInMonitor =>
             /\ \/ HoldsRiskState(load_trade_state(file'), mon)
                \/ /\ ev'.op = "tick_killed"
                   /\ HoldsRiskState(load_trade_state(file'),
                                     MonitorUpdate(mon, ev'.price).mem)
             /\ StopOf(RecoveredFrom(file')) >= StopOf(mon)
       /\ pc = "main" /\ ev'.op = "recover" =>
             /\ HoldsRiskState(load_trade_state(file), mon')
             /\ mon' = RecoveredFrom(file)]_vars

\* A recovered monitor that starts with the breakeven floor armed and a high
\* above the entry price.
C26_Witness ==
    /\ pc = "monitor"
    /\ ev.op = "recover"
    /\ mon.be
    /\ mon.highest > mon.entry

\* A step of the main loop in which trade_spy_options submits its opening
\* BUY order, filled or not.
OpeningOrderStep == ev'.op \in {"open", "open_failed"}

\* C27: an opening BUY order is submitted only in a main-loop cycle in which
\* load_trade_state returned a flat state, the market is open and the broker
\* reports no SPY option holding with a nonzero position; no monitor is
\* then running, and whenever a monitor runs the state file holds the open
\* record of the one contract it manages.
C27_OpenOnlyWhenFlat ==
    [][/\ OpeningOrderStep =>
             /\ pc = "main"
             /\ load_trade_state(file).kind = "flat"
             /\ market_open
             /\ \A c \in ConIds : positions[c] = 0
             /\ mon = NoMonitor
             /\ ev'.orders = <<[con |-> ev'.orders[1].con, type |-> "MKT",
                                action |-> "BUY", qty |-> ev'.orders[1].qty]>>
       /\ pc' = "monitor" =>
             /\ load_trade_state(file').kind = "open"
             /\ load_trade_state(file').con = mon'.con]_vars

\* An opening order has just filled and its position is under management.
C27_Witness ==
    /\ ev.op = "open"
    /\ pc = "monitor"
    /\ positions[mon.con] = mon.qty
    /\ load_trade_state(file).con = mon.con

\* The tick leaves the four risk fields of the monitor locals as they were.
RiskStateUnchanged ==
    /\ TickMem.highest = mon.highest
    /\ TickMem.tp = mon.tp
    /\ TickMem.be = mon.be
    /\ TickMem.pl = mon.pl

\* C28: on every valid tick, the state file as it is when the stop is
\* compared with the price (and so when close_position is called from the
\* monitor) holds the highest_price, trailing_percent, breakeven_activated
\* and profit_lock_activated of the monitor's locals; and a tick that
\* changes none of the four does not write the state file.
C28_PersistOnChange ==
    [][TickStep =>
          /\ HoldsRiskState(load_trade_state(PreCloseFile), TickMem)
          /\ ~ev'.closeCalled =>
                /\ file' = PreCloseFile
                /\ HoldsRiskState(load_trade_state(file'), mon')
          /\ RiskStateUnchanged => ~ev'.saved /\ PreCloseFile = file]_vars

\* A tick that set a new high and nothing else has been written, and the
\* monitor goes on.
C28_Witness ==
    /\ pc = "monitor"
    /\ ev.op = "tick"
    /\ ev.saved
    /\ mon.highest = ev.price
    /\ mon.highest > mon.entry
    /\ ~mon.be
    /\ load_trade_state(file).highest = mon.highest

\* C29: trailing_percent changes only on the tick that takes
\* profit_lock_activated from false to true, where it becomes
\* tightened_stop; every other tick and every other step of a running
\* monitor (a skipped tick among them) leaves it as it was, a recovery
\* starts the monitor with the trailing_percent of the state file, and the
\* state file of a running monitor holds the monitor's trailing_percent.
C29_TrailingChangesOnlyAtProfitLock ==
    [][/\ TickStep =>
             /\ TickMem.tp = IF ~mon.pl /\ TickMem.pl
                             THEN mon.targets.tightened_stop
                             ELSE mon.tp
             /\ ~ev'.closeCalled => mon'.tp = TickMem.tp /\ mon'.pl = TickMem.pl
       /\ pc = "monitor" /\ pc' = "monitor" /\ ev'.op # "tick" =>
             mon'.tp = mon.tp
       /\ pc = "main" /\ ev'.op = "recover" =>
             mon'.tp = load_trade_state(file).tp
       /\ pc' = "monitor" => load_trade_state(file').tp = mon'.tp]_vars

\* The monitor has ticked with the profit lock armed and the trailing
\* percentage tightened below both initial values.
C29_Witness ==
    /\ pc = "monitor"
    /\ ev.op = "tick"
    /\ mon.pl
    /\ mon.tp = mon.targets.tightened_stop
    /\ mon.tp < LOW_VIX_TRAILING_STOP
    /\ load_trade_state(file).tp = mon.tp

\* C30: the final_stop_price of a valid tick is at least the stop of the
\* monitor's locals before the tick, which is the final_stop_price of the
\* previous valid tick; the steps of a running monitor that are not ticks
\* leave that stop as it was; whatever way the monitor is left with the
\* position still recorded, the stop a recovery would start from is not
\* lower; outside the monitor the record of a position is not rewritten; and
\* a recovery starts the monitor with the stop of the record.
C30_StopOnlyTightens ==
    [][/\ TickStep =>
             /\ ev'.stop >= StopOf(mon)
             /\ ev'.stop = StopOf(TickMem)
             /\ ~ev'.closeCalled => StopOf(mon') = ev'.stop
       /\ pc = "monitor" /\ pc' = "monitor" /\ ev'.op # "tick" =>
             StopOf(mon') = StopOf(mon)
       /\ pc = "monitor" /\ IsOpen(file') =>
             StopOf(RecoveredFrom(file')) >= StopOf(mon)
       /\ pc # "monitor" /\ IsOpen(file) /\ IsOpen(file') => file' = file
       /\ pc = "main" /\ ev'.op = "recover" =>
             StopOf(mon') = StopOf(RecoveredFrom(file))]_vars

\* The monitor has ticked below its high with breakeven activated and a
\* stop above the entry price, and goes on.
C30_Witness ==
    /\ pc = "monitor"
    /\ ev.op = "tick"
    /\ ev.price < mon.highest
    /\ ev.stop > mon.entry
    /\ ev.stop = StopOf(mon)
    /\ mon.be

(***************************************************************************)
(* C31 - C40: who clears the record, recovery targets, torn writes,       *)
(* disconnected closes, the two scripts, termination.                     *)
(***************************************************************************)
\* The state file goes from an open record to the flat record.
RecordCleared == file.kind = "open" /\ file'.kind = "flat"

\* C31: the state file goes from an open record to the flat record only in
\* a close_position that returns success, its order Filled or the holding
\* no longer in the position list, or in the recovery branch whose contract
\* does not qualify; a tick that does not call close_position, a
\* market-closed exit, an invalid-entry abort, a skipped tick and the opener
\* leave an open record an open record.
C31_ClearedOnlyOnExit ==
    [][/\ RecordCleared =>
             \/ pc = "main" /\ ev'.op = "recover_fail"
             \/ /\ pc = "monitor"
                /\ ev'.closeCalled
                /\ ev'.closeRet
                /\ ev'.status = "Filled" \/ positions'[mon.con] = 0
       /\ /\ file.kind = "open"
          /\ \/ ev'.op \in {"market_closed", "invalid_entry", "skip", "open",
                            "open_failed", "no_trade", "recover"}
             \/ ev'.op = "tick" /\ ~ev'.closeCalled
          => file'.kind = "open"]_vars

\* The monitor's close has returned success on a holding that left the
\* position list without the order being reported Filled, and the record is
\* cleared.
C31_Witness ==
    /\ ev.op = "tick"
    /\ ev.closeCalled
    /\ ev.closeRet
    /\ ev.orders # <<>>
    /\ ev.status # "Filled"
    /\ file.kind = "flat"

\* C32 as stated: every return of the monitor for a position with a valid
\* entry price follows a call of close_position made in that run of the
\* monitor, and when that call returned success the state file is flat at
\* the return.
C32_ReturnsThroughClose ==
    [][pc = "monitor" /\ pc' = "main" /\ mon.entry > 0 =>
          /\ ev'.closeCalled
          /\ ev'.closeRet => load_trade_state(file').kind = "flat"]_vars

\* The targets rebuilt from the record r give, for each flag r still has
\* false, the threshold of the targets t, and the tightened stop of t.
RebuiltTargetsAgree(t, r) ==
    LET rebuilt == ProfitTargets(r.tp, r.regime)
    IN  /\ ~r.be => rebuilt.target_1 = t.target_1
        /\ ~r.pl => rebuilt.target_2 = t.target_2
        /\ rebuilt.tightened_stop = t.tightened_stop

\* C33: a recovery hands the monitor the targets built from the regime and
\* the trailing_percent of the record and the configuration alone; and the
\* record a running monitor has on file, or leaves on file when it stops,
\* is one from which the rebuilt target_1 (while breakeven_activated is
\* false), target_2 (while profit_lock_activated is false) and
\* tightened_stop are those the monitor is using.
C33_RebuiltTargetsMatch ==
    [][/\ pc = "main" /\ ev'.op = "recover" =>
             /\ mon'.targets = ProfitTargets(load_trade_state(file).tp,
                                             load_trade_state(file).regime)
             /\ mon'.regime = load_trade_state(file).regime
       /\ pc' = "monitor" =>
             RebuiltTargetsAgree(mon'.targets, load_trade_state(file'))
       /\ pc = "monitor" /\ IsOpen(file') =>
             RebuiltTargetsAgree(mon.targets, load_trade_state(file'))]_vars

\* A monitor recovered for a high-VIX position past target 1 and short of
\* target 2.
C33_Witness ==
    /\ pc = "monitor"
    /\ ev.op = "recover"
    /\ mon.regime = "REVERSION"
    /\ mon.be
    /\ ~mon.pl
    /\ mon.tp = HIGH_VIX_TRAILING_STOP
    /\ mon.targets = ProfitTargets(HIGH_VIX_TRAILING_STOP, "REVERSION")

\* The record the opener writes for the monitor it enters.
EntryRecord(m) ==
    save_trade_state(m.con, m.entry, m.qty, m.entry, m.tp, m.regime, FALSE,
                     FALSE)

\* C34: after a kill inside a write of the state file (a tick's
\* save_trade_state, the clear_trade_state of a failed recovery),
\* load_trade_state returns the flat state or, the write having finished,
\* the complete record the tick was writing; and every step of the script
\* that leaves a changed file loading as something other than flat has
\* written one complete record, that of the tick or that of the opener.
C34_TornWriteFlatOrComplete ==
    [][/\ ev'.op \in {"tick_killed", "recover_fail_killed"} =>
             \/ load_trade_state(file').kind = "flat"
             \/ /\ ev'.op = "tick_killed"
                /\ ev'.saved
                /\ load_trade_state(file') =
                      PersistOnChange(MonitorUpdate(mon, ev'.price))
       /\ /\ ev'.op # "none"
          /\ file' # file
          /\ load_trade_state(file').kind # "flat"
          => \/ /\ ev'.op \in {"tick", "tick_killed"}
                /\ file' = PersistOnChange(MonitorUpdate(mon, ev'.price))
                /\ file'.kind = "open"
             \/ /\ ev'.op = "open"
                /\ file' = EntryRecord(mon')]_vars

\* The process has been killed inside a tick's write: the file is cut
\* short, reads as flat, and the holding is still at the broker.
C34_Witness ==
    /\ pc = "exited"
    /\ ev.op = "tick_killed"
    /\ ~ev.saved
    /\ file = TornFile
    /\ load_trade_state(file) = FlatFile
    /\ \E c \in ConIds : positions[c] # 0

\* The alerts that report a close that failed: the one close_position sends
\* for an order not Filled, and the one the monitor sends when
\* close_position returns failure.
FailedCloseAlerts == {"Close Error", "Potential Issue: Stop Loss Close"}

\* A step in which close_position was called, from either call site.
CloseCallStep ==
    /\ ev'.closeCalled
    /\ \/ pc = "monitor" /\ ev'.op = "tick"
       \/ pc = "main" /\ ev'.op = "ghost"

\* C35 as stated: when close_position is called with the broker
\* disconnected, from the monitor on a stop or from the main loop on a ghost
\* position, it submits no order, leaves the state file as it is and
\* returns failure, and an alert is emitted for that failed close.
C35_DisconnectedCloseAlerts ==
    [][CloseCallStep /\ ~connected' =>
          /\ ev'.orders = <<>>
          /\ ~ev'.closeRet
          /\ file' = PreCloseFile
          /\ ev'.emails \cap FailedCloseAlerts # {}]_vars

NewHighStep == TickStep /\ ev'.price > mon.highest

C38_NoOpeningOrderLeftActive ==
    [][/\ ev'.op = "open_failed" => pending' = NoOrder
       /\ \A c \in ConIds :
             positions'[c] > positions[c] /\ positions[c] >= 0 =>
                load_trade_state(file').kind = "open"]_vars

\* C39 as stated: close_position never submits an order of quantity 0; a
\* call for a contract whose entry in the position list has size 0 places
\* no order, as a call for a contract with no entry.
C39_NoZeroQuantityOrder ==
    [][ev'.op = "close" =>
          \A i \in DOMAIN ev'.orders :
              /\ ev'.orders[i].qty > 0
              /\ positions[ev'.orders[i].con] # 0]_vars

\* C40: when the market eventually closes, every invocation of
\* monitor_position_with_trailing ends: control leaves the loop, and the
\* wait for the closing order inside it, by a return or an exception; and
\* the wait never sleeps more than max_wait_sec one-second polls.
C40_MonitorReturns ==
    /\ [](pc = "wait" => pending.polls <= max_wait_sec)
    /\ (pc \in {"monitor", "wait"}) ~> (pc \in {"main", "exited"})

\* The wait for a closing order has slept all its polls with the order
\* still active, after the market closed.
C40_Witness ==
    /\ pc = "wait"
    /\ pending.polls = max_wait_sec
    /\ IsActive(pending.status)
    /\ ~market_open

====
